---- MODULE Spec2Model ----
(***************************************************************************)
(* Text-image adjacency detection of the document analysis service         *)
(* (DocumentAnalysisService): the markup path (HTML normalizer and         *)
(* adjacency matcher) and the geometric path (relationship analyzer and    *)
(* text matcher).                                                          *)
(*                                                                         *)
(* A JavaScript string is modelled as a sequence of characters, each       *)
(* character a TLA+ string: "a", "<", " ", "\n".  The characters outside   *)
(* ASCII that the entity table produces are written as their code point    *)
(* ("U+00A9").  The JavaScript value null is the one-element sequence      *)
(* holding the token "null", which is no character.                        *)
(***************************************************************************)
EXTENDS Integers, Sequences, FiniteSets, TLC

VARIABLES
    pc,               \* position of the request being modelled
    htmlContent,      \* markup produced by the document converter
    pieceCount,       \* number of fragments the converter has emitted
    cleanedHtmlText,  \* extractTextFromHtml(htmlContent)
    renormalized,     \* extractTextFromHtml(cleanedHtmlText)
    givenStr,         \* target handed to isFollowedByImage
    followed,         \* verdict of isFollowedByImage(cleanedHtmlText, givenStr)
    targets,          \* the targets the caller joined with commas
    data,             \* data of extractDocumentContent's result
    textContent,      \* contentInfo.textContent: the text blocks, in reading order
    imagePositions,   \* contentInfo.imagePositions: the image records
    analysis,         \* a call of analyzeTextImageRelationship and its results
    below,            \* a call of isImageBelowText and its verdict
    search,           \* a call of searchTextInDocument and its results
    comparison,       \* a call of calculateSimilarity: its arguments and its value
    req,              \* the HTTP request: endpoint, uploaded file, text field
    res,              \* the responses sent for the request, in order
    upload,           \* the temp file the upload middleware stored for req.file
    handler,          \* locals of the request handler
    batch,            \* req.files of a batch OCR request and the per-file tasks
    pdfText,          \* the text pdf-parse extracted from a PDF
    requests,         \* the requests the server handles at the same time
    disk              \* the upload directory: the content stored under each name

geoVars == <<textContent, imagePositions, analysis, below>>

vars == <<pc, htmlContent, pieceCount, cleanedHtmlText, renormalized, givenStr, followed,
          targets, data, geoVars, search, comparison,
          req, res, upload, handler, batch, pdfText, requests, disk>>

\* The state of the server with several requests in progress.
concurrentVars == <<requests, disk>>

httpVars == <<req, res, upload, handler, batch, pdfText, concurrentVars>>

\* The value of a variable that no step has assigned yet.
Unset == <<"unset">>

\* The JavaScript value null where an object is expected, and the value of
\* a record-valued variable that no step has assigned yet.
NullObject == [null |-> TRUE]

(***************************************************************************)
(* Bounds of the model.                                                    *)
(***************************************************************************)
MaxPieces == 3
MaxDocPieces == 3
MaxTargets == 2

(***************************************************************************)
(* Characters and strings.                                                 *)
(***************************************************************************)
Null == <<"null">>

IMAGE == <<"[", "i", "m", "a", "g", "e", "]">>

\* String.prototype.toLowerCase, one character.
toLowerChar(c) ==
    CASE c = "A" -> "a" [] c = "B" -> "b" [] c = "C" -> "c" [] c = "D" -> "d"
      [] c = "E" -> "e" [] c = "F" -> "f" [] c = "G" -> "g" [] c = "H" -> "h"
      [] c = "I" -> "i" [] c = "J" -> "j" [] c = "K" -> "k" [] c = "L" -> "l"
      [] c = "M" -> "m" [] c = "N" -> "n" [] c = "O" -> "o" [] c = "P" -> "p"
      [] c = "Q" -> "q" [] c = "R" -> "r" [] c = "S" -> "s" [] c = "T" -> "t"
      [] c = "U" -> "u" [] c = "V" -> "v" [] c = "W" -> "w" [] c = "X" -> "x"
      [] c = "Y" -> "y" [] c = "Z" -> "z" [] OTHER -> c

toLowerCase(s) == [i \in 1..Len(s) |-> toLowerChar(s[i])]

\* The class \s of a JavaScript regular expression, which trim() strips too.
IsSpace(c) == c \in {" ", "\n", "\t", "\r"}

\* What the regular expression dot does not match.
IsLineTerminator(c) == c \in {"\n", "\r"}

\* p occurs in s at index i (1-based).
MatchAt(s, i, p) ==
    /\ i >= 1
    /\ i + Len(p) - 1 <= Len(s)
    /\ \A k \in 1..Len(p) : s[i + k - 1] = p[k]

\* The same under the flag i; p is written in lower case.
MatchAtCI(s, i, p) ==
    /\ i >= 1
    /\ i + Len(p) - 1 <= Len(s)
    /\ \A k \in 1..Len(p) : toLowerChar(s[i + k - 1]) = p[k]

\* String.prototype.indexOf(p, from), 1-based; 0 when there is none.
RECURSIVE indexOf(_, _, _)
indexOf(s, p, from) ==
    IF from + Len(p) - 1 > Len(s) THEN 0
    ELSE IF MatchAt(s, from, p) THEN from
    ELSE indexOf(s, p, from + 1)

RECURSIVE indexOfCI(_, _, _)
indexOfCI(s, p, from) ==
    IF from + Len(p) - 1 > Len(s) THEN 0
    ELSE IF MatchAtCI(s, from, p) THEN from
    ELSE indexOfCI(s, p, from + 1)

includes(s, p) == indexOf(s, p, 1) # 0

startsWith(s, p) == MatchAt(s, 1, p)

\* String.prototype.split(sep) for a non-empty separator.
RECURSIVE splitFrom(_, _, _)
splitFrom(s, sep, from) ==
    LET k == indexOf(s, sep, from)
    IN  IF k = 0 THEN <<SubSeq(s, from, Len(s))>>
        ELSE <<SubSeq(s, from, k - 1)>> \o splitFrom(s, sep, k + Len(sep))

split(s, sep) == splitFrom(s, sep, 1)

\* Array.prototype.join(sep) of a non-empty list of strings.
RECURSIVE join(_, _)
join(list, sep) ==
    IF Len(list) = 1 THEN list[1]
    ELSE list[1] \o sep \o join(Tail(list), sep)

\* String.prototype.trim.
RECURSIVE trimStart(_)
trimStart(s) ==
    IF s # <<>> /\ IsSpace(Head(s)) THEN trimStart(Tail(s)) ELSE s

RECURSIVE trimEnd(_)
trimEnd(s) ==
    IF s # <<>> /\ IsSpace(s[Len(s)]) THEN trimEnd(SubSeq(s, 1, Len(s) - 1)) ELSE s

trim(s) == trimEnd(trimStart(s))

\* String.prototype.replace(new RegExp(pat, 'g'), repl) for a literal pat.
RECURSIVE replaceAllFrom(_, _, _, _)
replaceAllFrom(s, pat, repl, i) ==
    IF i > Len(s) THEN <<>>
    ELSE IF MatchAt(s, i, pat)
         THEN repl \o replaceAllFrom(s, pat, repl, i + Len(pat))
         ELSE <<s[i]>> \o replaceAllFrom(s, pat, repl, i + 1)

replaceAll(s, pat, repl) == replaceAllFrom(s, pat, repl, 1)

(***************************************************************************)
(* The regular expressions of extractTextFromHtml.                         *)
(***************************************************************************)
\* /<name[^>]*>/gi replaced by repl: from the tag's start to the first ">".
RECURSIVE replaceTagFrom(_, _, _, _)
replaceTagFrom(s, open, repl, i) ==
    IF i > Len(s) THEN <<>>
    ELSE LET j == IF MatchAtCI(s, i, open)
                  THEN indexOf(s, <<">">>, i + Len(open)) ELSE 0
         IN  IF j # 0 THEN repl \o replaceTagFrom(s, open, repl, j + 1)
             ELSE <<s[i]>> \o replaceTagFrom(s, open, repl, i + 1)

replaceTag(s, open, repl) == replaceTagFrom(s, open, repl, 1)

\* Where a match of /<name[^>]*>.*?<\/name>/i that starts at i ends; 0 when
\* there is none.  The dot does not match a line terminator.
elementEnd(s, open, close, i) ==
    IF ~MatchAtCI(s, i, open) THEN 0
    ELSE LET j == indexOf(s, <<">">>, i + Len(open))
             k == IF j = 0 THEN 0 ELSE indexOfCI(s, close, j + 1)
         IN  IF k = 0 THEN 0
             ELSE IF \E m \in (j + 1)..(k - 1) : IsLineTerminator(s[m]) THEN 0
             ELSE k + Len(close) - 1

\* /<name[^>]*>.*?<\/name>/gi replaced by [image].
RECURSIVE replaceElementFrom(_, _, _, _)
replaceElementFrom(s, open, close, i) ==
    IF i > Len(s) THEN <<>>
    ELSE LET e == elementEnd(s, open, close, i)
         IN  IF e # 0 THEN IMAGE \o replaceElementFrom(s, open, close, e + 1)
             ELSE <<s[i]>> \o replaceElementFrom(s, open, close, i + 1)

replaceElement(s, open, close) == replaceElementFrom(s, open, close, 1)

firstNonSpace(s, i) ==
    IF \E m \in i..Len(s) : ~IsSpace(s[m])
    THEN CHOOSE m \in i..Len(s) :
             ~IsSpace(s[m]) /\ \A n \in i..(m - 1) : IsSpace(s[n])
    ELSE Len(s) + 1

\* replace(/\s+/g, ' ')
RECURSIVE collapseFrom(_, _)
collapseFrom(s, i) ==
    IF i > Len(s) THEN <<>>
    ELSE IF IsSpace(s[i]) THEN <<" ">> \o collapseFrom(s, firstNonSpace(s, i))
    ELSE <<s[i]>> \o collapseFrom(s, i + 1)

collapseWhitespace(s) == collapseFrom(s, 1)

\* replace(/\[image\]\s*\[image\]/g, '[image]')
RECURSIVE mergeFrom(_, _)
mergeFrom(s, i) ==
    IF i > Len(s) THEN <<>>
    ELSE LET j == IF MatchAt(s, i, IMAGE) THEN firstNonSpace(s, i + Len(IMAGE)) ELSE 0
         IN  IF j # 0 /\ MatchAt(s, j, IMAGE)
             THEN IMAGE \o mergeFrom(s, j + Len(IMAGE))
             ELSE <<s[i]>> \o mergeFrom(s, i + 1)

mergeImagePairs(s) == mergeFrom(s, 1)

(***************************************************************************)
(* extractTextFromHtml: the HTML normalizer.                               *)
(***************************************************************************)
\* imageTagPattern and otherImagePatterns, applied in the order of the code.
replaceImageTags(s) ==
    LET p1 == replaceTag(s, <<"<", "i", "m", "g">>, IMAGE)
        p2 == replaceTag(p1, <<"<", "i", "m", "a", "g", "e">>, IMAGE)
        p3 == replaceElement(p2, <<"<", "p", "i", "c", "t", "u", "r", "e">>,
                  <<"<", "/", "p", "i", "c", "t", "u", "r", "e", ">">>)
        p4 == replaceElement(p3, <<"<", "f", "i", "g", "u", "r", "e">>,
                  <<"<", "/", "f", "i", "g", "u", "r", "e", ">">>)
        p5 == replaceElement(p4, <<"<", "s", "v", "g">>,
                  <<"<", "/", "s", "v", "g", ">">>)
    IN  replaceElement(p5, <<"<", "c", "a", "n", "v", "a", "s">>,
            <<"<", "/", "c", "a", "n", "v", "a", "s", ">">>)

\* htmlTagPattern without the flag g: only the first tag is removed.
stripTags_firstOnly(s) ==
    LET i == indexOf(s, <<"<">>, 1)
        j == IF i = 0 THEN 0 ELSE indexOf(s, <<">">>, i + 1)
    IN  IF j = 0 THEN s ELSE SubSeq(s, 1, i - 1) \o SubSeq(s, j + 1, Len(s))

\* htmlTagPattern /<[^>]*>/g, replaced by nothing.
stripTags(s) == replaceTag(s, <<"<">>, <<>>)

\* htmlEntities, in the order Object.entries yields them.
htmlEntities ==
    << <<(<<"&", "a", "m", "p", ";">>), (<<"&">>)>>,
       <<(<<"&", "l", "t", ";">>), (<<"<">>)>>,
       <<(<<"&", "g", "t", ";">>), (<<">">>)>>,
       <<(<<"&", "q", "u", "o", "t", ";">>), (<<"\"">>)>>,
       <<(<<"&", "#", "0", "3", "9", ";">>), (<<"'">>)>>,
       <<(<<"&", "n", "b", "s", "p", ";">>), (<<" ">>)>>,
       <<(<<"&", "c", "o", "p", "y", ";">>), (<<"U+00A9">>)>>,
       <<(<<"&", "r", "e", "g", ";">>), (<<"U+00AE">>)>>,
       <<(<<"&", "t", "r", "a", "d", "e", ";">>), (<<"U+2122">>)>>,
       <<(<<"&", "h", "e", "l", "l", "i", "p", ";">>), (<<".", ".", ".">>)>>,
       <<(<<"&", "m", "d", "a", "s", "h", ";">>), (<<"U+2014">>)>>,
       <<(<<"&", "n", "d", "a", "s", "h", ";">>), (<<"U+2013">>)>>,
       <<(<<"&", "l", "s", "q", "u", "o", ";">>), (<<"'">>)>>,
       <<(<<"&", "r", "s", "q", "u", "o", ";">>), (<<"'">>)>>,
       <<(<<"&", "l", "d", "q", "u", "o", ";">>), (<<"\"">>)>>,
       <<(<<"&", "r", "d", "q", "u", "o", ";">>), (<<"\"">>)>> >>

\* Object.entries(htmlEntities).forEach: one replace over the whole text per
\* entity, each on the result of the one before.
RECURSIVE decodeFrom(_, _)
decodeFrom(s, n) ==
    IF n > Len(htmlEntities) THEN s
    ELSE decodeFrom(replaceAll(s, htmlEntities[n][1], htmlEntities[n][2]), n + 1)

decodeEntities(s) == decodeFrom(s, 1)

extractTextFromHtml(html) ==
    IF html = Null \/ html = <<>> THEN <<>>
    ELSE LET processedContent == trim(html)
         IN  IF Len(processedContent) = 0 THEN <<>>
             ELSE mergeImagePairs(trim(collapseWhitespace(
                      decodeEntities(stripTags(replaceImageTags(processedContent))))))

(***************************************************************************)
(* isFollowedByImage: the adjacency matcher.                               *)
(***************************************************************************)
\* The matcher with includes in the place of startsWith: a placeholder
\* anywhere in the next segment counts.
isFollowedByImage_includes(originalStr, given) ==
    IF originalStr = Null \/ originalStr = <<>> \/ given = Null \/ given = <<>>
    THEN FALSE
    ELSE LET parts == split(originalStr, given)
         IN  IF Len(parts) <= 1 THEN FALSE
             ELSE \E i \in 1..(Len(parts) - 1) : includes(parts[i + 1], IMAGE)

isFollowedByImage(originalStr, given) ==
    IF originalStr = Null \/ originalStr = <<>> \/ given = Null \/ given = <<>>
    THEN FALSE
    ELSE LET parts == split(originalStr, given)
         IN  IF Len(parts) <= 1 THEN FALSE
             ELSE \E i \in 1..(Len(parts) - 1) : startsWith(parts[i + 1], IMAGE)

(***************************************************************************)
(* extractDocumentContent: the batch contract over comma-separated         *)
(* targets.                                                                *)
(***************************************************************************)
\* The prefix of the marker of a target that no image follows.
MISSING == <<"U+7F3A", "U+5C11">>

COMMA == <<",">>

\* The batch contract listing only the targets that are missing.
extractDocumentContentData_onlyMissing(html, targetText) ==
    LET list == split(targetText, COMMA)
        text == extractTextFromHtml(html)
    IN  [cleanedHtmlText |-> text,
         result |-> SelectSeq([i \in 1..Len(list) |->
                        IF isFollowedByImage(text, list[i]) THEN <<>>
                        ELSE MISSING \o list[i]], LAMBDA e : e # <<>>),
         targetText |-> targetText]

\* The data of the result the service returns for the converted markup and
\* the option targetText.
extractDocumentContentData(html, targetText) ==
    LET list == split(targetText, COMMA)
        text == extractTextFromHtml(html)
    IN  [cleanedHtmlText |-> text,
         result |-> [i \in 1..Len(list) |->
                        IF isFollowedByImage(text, list[i]) THEN <<>>
                        ELSE MISSING \o list[i]],
         targetText |-> targetText]

(***************************************************************************)
(* Inputs of the markup path.                                              *)
(***************************************************************************)
\* Fragments the converter's markup is made of: text, whitespace, image
\* elements, other tags, entities and lone brackets.
HtmlPieces ==
    { <<"a">>, <<" ">>, <<"\n">>,
      <<"<", "i", "m", "g", ">">>,
      <<"<", "F", "i", "g", "u", "r", "e", ">">>,
      <<"<", "/", "f", "i", "g", "u", "r", "e", ">">>,
      <<"&", "l", "t", ";">>, <<"&", "a", "m", "p", ";">>, <<"l", "t", ";">>,
      <<"<">>, <<">">> }

\* Fragments of the documents the adjacency matcher is run on.
DocPieces ==
    { <<"a">>, <<"b">>, <<"b", "b">>, <<" ">>, <<"<", "i", "m", "g", ">">> }

\* Targets a caller asks for; none holds a comma.
Targets == { <<>>, <<"a">>, <<"b">>, <<"b", "b">> }

\* The non-empty lists of at most n targets.
TargetLists(n) == UNION { [1..k -> Targets] : k \in 1..n }

(***************************************************************************)
(* The markup path as a state machine.                                     *)
(***************************************************************************)
Init ==
    /\ pc = "convert"
    /\ htmlContent = <<>>
    /\ pieceCount = 0
    /\ cleanedHtmlText = Unset
    /\ renormalized = Unset
    /\ givenStr = Unset
    /\ followed = FALSE
    /\ targets = Unset
    /\ data = Unset
    /\ textContent = <<>>
    /\ imagePositions = <<>>
    /\ analysis = NullObject
    /\ below = NullObject
    /\ search = NullObject
    /\ comparison = NullObject
    /\ req = NullObject
    /\ res = <<>>
    /\ upload = NullObject
    /\ handler = NullObject
    /\ batch = NullObject
    /\ pdfText = Unset
    /\ requests = <<>>
    /\ disk = <<>>

\* The converter emits one more fragment of markup.
AppendPiece(p, max) ==
    /\ pc = "convert"
    /\ pieceCount < max
    /\ htmlContent' = htmlContent \o p
    /\ pieceCount' = pieceCount + 1
    /\ UNCHANGED <<pc, cleanedHtmlText, renormalized, givenStr, followed, targets, data>>
    /\ UNCHANGED <<geoVars, search, comparison, httpVars>>

ExtractTextFromHtml ==
    /\ pc = "convert"
    /\ cleanedHtmlText' = extractTextFromHtml(htmlContent)
    /\ pc' = "normalized"
    /\ UNCHANGED <<htmlContent, pieceCount, renormalized, givenStr, followed, targets, data>>
    /\ UNCHANGED <<geoVars, search, comparison, httpVars>>

\* The normalizer run on its own output.
ExtractTextAgain ==
    /\ pc = "normalized"
    /\ renormalized' = extractTextFromHtml(cleanedHtmlText)
    /\ pc' = "renormalized"
    /\ UNCHANGED <<htmlContent, pieceCount, cleanedHtmlText, givenStr, followed, targets, data>>
    /\ UNCHANGED <<geoVars, search, comparison, httpVars>>

IsFollowedByImage(t) ==
    /\ pc = "normalized"
    /\ givenStr' = t
    /\ followed' = isFollowedByImage(cleanedHtmlText, t)
    /\ pc' = "matched"
    /\ UNCHANGED <<htmlContent, pieceCount, cleanedHtmlText, renormalized, targets, data>>
    /\ UNCHANGED <<geoVars, search, comparison, httpVars>>

\* handleDocumentContentExtraction hands req.query.targetText, the caller's
\* targets joined by commas, to extractDocumentContent.
ExtractDocumentContent(ts) ==
    /\ pc = "convert"
    /\ targets' = ts
    /\ data' = extractDocumentContentData(htmlContent, join(ts, COMMA))
    /\ pc' = "extracted"
    /\ UNCHANGED <<htmlContent, pieceCount, cleanedHtmlText, renormalized, givenStr, followed>>
    /\ UNCHANGED <<geoVars, search, comparison, httpVars>>

NextNormalizer ==
    \/ \E p \in HtmlPieces : AppendPiece(p, MaxPieces)
    \/ ExtractTextFromHtml
    \/ ExtractTextAgain

SpecNormalizer == Init /\ [][NextNormalizer]_vars

NextAdjacency ==
    \/ \E p \in DocPieces : AppendPiece(p, MaxDocPieces)
    \/ ExtractTextFromHtml
    \/ \E t \in Targets \cup {Null} : IsFollowedByImage(t)
    \/ \E ts \in TargetLists(MaxTargets) : ExtractDocumentContent(ts)

SpecAdjacency == Init /\ [][NextAdjacency]_vars

(***************************************************************************)
(* The text similarity matcher.                                            *)
(*                                                                         *)
(* A similarity is the fraction num/den, den > 0; a tolerance is written   *)
(* in tenths (0.8 is 8).                                                   *)
(***************************************************************************)
\* String.prototype.split(/\s+/)
RECURSIVE splitWordsFrom(_, _)
splitWordsFrom(s, from) ==
    IF \E m \in from..Len(s) : IsSpace(s[m])
    THEN LET k == CHOOSE m \in from..Len(s) :
                      IsSpace(s[m]) /\ \A n \in from..(m - 1) : ~IsSpace(s[n])
         IN  <<SubSeq(s, from, k - 1)>> \o splitWordsFrom(s, firstNonSpace(s, k))
    ELSE <<SubSeq(s, from, Len(s))>>

splitWords(s) == splitWordsFrom(s, 1)

Max(a, b) == IF a >= b THEN a ELSE b

calculateSimilarity(text1, text2) ==
    IF text1 = text2 THEN [num |-> 1, den |-> 1]
    ELSE IF text1 = <<>> \/ text2 = <<>> THEN [num |-> 0, den |-> 1]
    ELSE LET words1 == splitWords(text1)
             words2 == splitWords(text2)
             commonWords == SelectSeq(words1,
                                LAMBDA word : \E j \in 1..Len(words2) : words2[j] = word)
             totalWords == Max(Len(words1), Len(words2))
         IN  IF totalWords > 0 THEN [num |-> Len(commonWords), den |-> totalWords]
             ELSE [num |-> 0, den |-> 1]

\* similarity >= tolerance
AtLeast(similarity, tolerance) == similarity.num * 10 >= tolerance * similarity.den

\* The matcher without its comparison: any text matches any target.
isTextMatch_anyText(text, targetText, tolerance) ==
    ~(text = Null \/ text = <<>> \/ targetText = Null \/ targetText = <<>>)

isTextMatch(text, targetText, tolerance) ==
    IF text = Null \/ text = <<>> \/ targetText = Null \/ targetText = <<>> THEN FALSE
    ELSE LET normalizedText == trim(toLowerCase(text))
             normalizedTarget == trim(toLowerCase(targetText))
         IN  \/ includes(normalizedText, normalizedTarget)
             \/ AtLeast(calculateSimilarity(normalizedText, normalizedTarget), tolerance)

calculateTextConfidence(text, targetText) ==
    calculateSimilarity(toLowerCase(text), toLowerCase(targetText))

(***************************************************************************)
(* The geometric relationship analyzer.  Coordinates are integers.         *)
(***************************************************************************)
\* The square of calculateDistance: dx * dx + dy * dy.
calculateDistanceSquared(pos1, pos2) ==
    LET dx == pos1.x - pos2.x
        dy == pos1.y - pos2.y
    IN  dx * dx + dy * dy

\* calculateDistance(pos1, pos2) <= searchRadius: the square root is
\* monotone, so the squares are compared.
isNearby(pos1, pos2, searchRadius) ==
    searchRadius >= 0 /\ calculateDistanceSquared(pos1, pos2) <= searchRadius * searchRadius

\* The band with its lower bound exclusive.
isImageBelowText_exclusive(textPosition, imagePosition, lineHeight) ==
    LET textBottom == textPosition.y + textPosition.height
        imageTop == imagePosition.y
    IN  /\ 2 * imageTop > 2 * textBottom + lineHeight
        /\ imageTop <= textBottom + lineHeight * 3

\* minDistance is lineHeight * 0.5, a half for an odd lineHeight: the lower
\* bound is compared with both sides doubled.
isImageBelowText(textPosition, imagePosition, lineHeight) ==
    LET textBottom == textPosition.y + textPosition.height
        imageTop == imagePosition.y
    IN  /\ 2 * imageTop >= 2 * textBottom + lineHeight
        /\ imageTop <= textBottom + lineHeight * 3

\* The sentence around horizontalPosition in the template literal of
\* getRelativePosition.
RELATIVE_PREFIX == <<"U+56FE", "U+7247", "U+4F4D", "U+4E8E", "U+6587", "U+5B57">>

RELATIVE_SUFFIX == <<"U+4E0B", "U+65B9">>

\* The centres are compared doubled (width / 2).  The value returned is the
\* template literal: the sentence with horizontalPosition inside it.
getRelativePosition(textPosition, imagePosition) ==
    LET textCenterX2 == 2 * textPosition.x + textPosition.width
        imageCenterX2 == 2 * imagePosition.x + imagePosition.width
        horizontalPosition ==
            IF imageCenterX2 < textCenterX2 - 100 THEN <<"l", "e", "f", "t">>
            ELSE IF imageCenterX2 > textCenterX2 + 100 THEN <<"r", "i", "g", "h", "t">>
            ELSE <<"c", "e", "n", "t", "e", "r">>
    IN  RELATIVE_PREFIX \o horizontalPosition \o RELATIVE_SUFFIX

\* The filter on the distance alone, as findNearbyImages has it.
findImagesAfterText_nearbyOnly(images, textPosition, searchRadius, lineHeight) ==
    SelectSeq(images, LAMBDA img : isNearby(textPosition, img.position, searchRadius))

findImagesAfterText(images, textPosition, searchRadius, lineHeight) ==
    SelectSeq(images, LAMBDA img :
        /\ isNearby(textPosition, img.position, searchRadius)
        /\ isImageBelowText(textPosition, img.position, lineHeight))

\* The tolerance of an exact match.
EXACT_TOLERANCE == 10

DEFAULT_TOLERANCE == 8

\* The loop without its break: the last matching block decides.
analyzeTextImageRelationship_lastMatch(contentInfo, targetText, options) ==
    LET isMatch(textItem) ==
            IF options.fuzzyMatch
            THEN isTextMatch(textItem.text, targetText, options.tolerance)
            ELSE isTextMatch(textItem.text, targetText, EXACT_TOLERANCE)
        blocks == contentInfo.textContent
    IN  IF \E i \in 1..Len(blocks) : isMatch(blocks[i])
        THEN LET first == CHOOSE i \in 1..Len(blocks) :
                              isMatch(blocks[i]) /\ \A j \in (i + 1)..Len(blocks) : ~isMatch(blocks[j])
                 textItem == blocks[first]
                 nearbyImages == findImagesAfterText(contentInfo.imagePositions,
                                     textItem.position, options.searchRadius,
                                     options.lineHeight)
             IN  [targetText |-> targetText,
                  foundText |-> TRUE,
                  hasImageAfter |-> Len(nearbyImages) > 0,
                  imageDetails |->
                      [k \in 1..Len(nearbyImages) |->
                          LET img == nearbyImages[k]
                          IN  [position |-> img.position,
                               type |-> img.type,
                               index |-> img.index,  \* img.index || 0
                               distanceSquared |->
                                   calculateDistanceSquared(textItem.position, img.position),
                               isBelowText |->
                                   isImageBelowText(textItem.position, img.position,
                                       options.lineHeight),
                               relativePosition |->
                                   getRelativePosition(textItem.position, img.position)]],
                  textPosition |-> textItem.position,
                  confidence |-> calculateTextConfidence(textItem.text, targetText),
                  analysisMethod |-> "position_based"]
        ELSE [targetText |-> targetText,
              foundText |-> FALSE,
              hasImageAfter |-> FALSE,
              imageDetails |-> <<>>,
              textPosition |-> NullObject,
              confidence |-> [num |-> 0, den |-> 1],
              analysisMethod |-> "position_based"]

\* options: [searchRadius, tolerance, lineHeight, fuzzyMatch].
analyzeTextImageRelationship(contentInfo, targetText, options) ==
    LET isMatch(textItem) ==
            IF options.fuzzyMatch
            THEN isTextMatch(textItem.text, targetText, options.tolerance)
            ELSE isTextMatch(textItem.text, targetText, EXACT_TOLERANCE)
        blocks == contentInfo.textContent
    IN  IF \E i \in 1..Len(blocks) : isMatch(blocks[i])
        THEN LET first == CHOOSE i \in 1..Len(blocks) :
                              isMatch(blocks[i]) /\ \A j \in 1..(i - 1) : ~isMatch(blocks[j])
                 textItem == blocks[first]
                 nearbyImages == findImagesAfterText(contentInfo.imagePositions,
                                     textItem.position, options.searchRadius,
                                     options.lineHeight)
             IN  [targetText |-> targetText,
                  foundText |-> TRUE,
                  hasImageAfter |-> Len(nearbyImages) > 0,
                  imageDetails |->
                      [k \in 1..Len(nearbyImages) |->
                          LET img == nearbyImages[k]
                          IN  [position |-> img.position,
                               type |-> img.type,
                               index |-> img.index,  \* img.index || 0
                               distanceSquared |->
                                   calculateDistanceSquared(textItem.position, img.position),
                               isBelowText |->
                                   isImageBelowText(textItem.position, img.position,
                                       options.lineHeight),
                               relativePosition |->
                                   getRelativePosition(textItem.position, img.position)]],
                  textPosition |-> textItem.position,
                  confidence |-> calculateTextConfidence(textItem.text, targetText),
                  analysisMethod |-> "position_based"]
        ELSE [targetText |-> targetText,
              foundText |-> FALSE,
              hasImageAfter |-> FALSE,
              imageDetails |-> <<>>,
              textPosition |-> NullObject,
              confidence |-> [num |-> 0, den |-> 1],
              analysisMethod |-> "position_based"]

(***************************************************************************)
(* The free-text search.                                                   *)
(***************************************************************************)
Min(a, b) == IF a <= b THEN a ELSE b

ELLIPSIS == <<".", ".", ".">>

\* The context window of a match.  contextLength / 2 is a half for an odd
\* contextLength: the indices are kept doubled, and substring() drops the
\* half.
extractContext(fullText, searchText, contextLength) ==
    LET searchIndex == indexOf(toLowerCase(fullText), toLowerCase(searchText), 1) - 1
    IN  IF searchIndex = -1
        THEN SubSeq(fullText, 1, Min(contextLength, Len(fullText)))
        ELSE LET startIndex2 == Max(0, 2 * searchIndex - contextLength)
                 endIndex2 == Min(2 * Len(fullText),
                                  2 * (searchIndex + Len(searchText)) + contextLength)
                 context == SubSeq(fullText, (startIndex2 \div 2) + 1, endIndex2 \div 2)
             IN  (IF startIndex2 > 0 THEN ELLIPSIS ELSE <<>>)
                     \o context
                     \o (IF endIndex2 < 2 * Len(fullText) THEN ELLIPSIS ELSE <<>>)

\* The contextLength searchTextInDocument asks for.
CONTEXT_LENGTH == 50

\* a.confidence < b.confidence
LessConfident(a, b) ==
    a.confidence.num * b.confidence.den < b.confidence.num * a.confidence.den

\* results.sort((a, b) => b.confidence - a.confidence): descending, and
\* stable.
RECURSIVE sortByConfidence(_)
sortByConfidence(results) ==
    IF results = <<>> THEN <<>>
    ELSE LET n == Len(results)
             last == results[n]
             sorted == sortByConfidence(SubSeq(results, 1, n - 1))
             k == Cardinality({i \in 1..(n - 1) : ~LessConfident(sorted[i], last)})
         IN  SubSeq(sorted, 1, k) \o <<last>> \o SubSeq(sorted, k + 1, n - 1)

\* The loop of searchTextInDocument from the i-th text block on, results
\* being what the blocks before it pushed.
RECURSIVE searchLoop(_, _, _, _, _)
searchLoop(blocks, searchText, options, i, results) ==
    IF i > Len(blocks) THEN results
    ELSE LET textItem == blocks[i]
             normalizedSearchText ==
                 IF options.caseSensitive THEN searchText ELSE toLowerCase(searchText)
             documentText ==
                 IF options.caseSensitive THEN textItem.text ELSE toLowerCase(textItem.text)
             similarity == calculateSimilarity(documentText, normalizedSearchText)
             matchIndex == indexOf(documentText, normalizedSearchText, 1) - 1
             pushed ==
                 IF options.fuzzyMatch
                 THEN IF AtLeast(similarity, options.tolerance)
                      THEN Append(results,
                               [page |-> textItem.page,
                                position |-> textItem.position,
                                matchedText |-> textItem.text,
                                confidence |-> similarity,
                                matchType |-> "fuzzy",
                                context |-> extractContext(textItem.text, searchText,
                                                CONTEXT_LENGTH)])
                      ELSE results
                 ELSE IF matchIndex # -1
                      THEN Append(results,
                               [page |-> textItem.page,
                                position |-> textItem.position,
                                matchedText |-> textItem.text,
                                confidence |-> [num |-> 1, den |-> 1],
                                matchType |-> "exact",
                                matchIndex |-> matchIndex,
                                context |-> extractContext(textItem.text, searchText,
                                                CONTEXT_LENGTH)])
                      ELSE results
         IN  IF Len(pushed) >= options.maxResults THEN pushed
             ELSE searchLoop(blocks, searchText, options, i + 1, pushed)

\* options: [caseSensitive, fuzzyMatch, tolerance, maxResults].
searchTextInDocument(contentInfo, searchText, options) ==
    sortByConfidence(searchLoop(contentInfo.textContent, searchText, options, 1, <<>>))

(***************************************************************************)
(* Inputs of the geometric path.                                           *)
(***************************************************************************)
MaxBlocks == 2
MaxImages == 2

BlockTexts == { <<"a", " ", "b">>, <<"B", " ", "a">> }

\* Two lines, the first with its bottom at y = 100.
BlockPositions ==
    { [x |-> 50, y |-> 75, width |-> 700, height |-> 25],
      [x |-> 50, y |-> 105, width |-> 700, height |-> 25] }

ImageRects ==
    { [x |-> 50, y |-> 109, width |-> 200, height |-> 150],
      [x |-> 50, y |-> 110, width |-> 200, height |-> 150],
      [x |-> 50, y |-> 160, width |-> 200, height |-> 150],
      [x |-> 110, y |-> 160, width |-> 200, height |-> 150],
      [x |-> 50, y |-> 161, width |-> 200, height |-> 150] }

GeoTargets == { <<"b", " ", "a">>, <<"a">>, <<"c">> }

SearchRadii == {100, 50}

LineHeights == {20, 15}

AnalysisOptions ==
    [searchRadius : SearchRadii, tolerance : {DEFAULT_TOLERANCE},
     lineHeight : LineHeights, fuzzyMatch : BOOLEAN]

(***************************************************************************)
(* The geometric path as a state machine.                                  *)
(***************************************************************************)
InitGeometric ==
    /\ pc = "extract"
    /\ htmlContent = <<>>
    /\ pieceCount = 0
    /\ cleanedHtmlText = Unset
    /\ renormalized = Unset
    /\ givenStr = Unset
    /\ followed = FALSE
    /\ targets = Unset
    /\ data = Unset
    /\ textContent = <<>>
    /\ imagePositions = <<>>
    /\ analysis = NullObject
    /\ below = NullObject
    /\ search = NullObject
    /\ comparison = NullObject
    /\ req = NullObject
    /\ res = <<>>
    /\ upload = NullObject
    /\ handler = NullObject
    /\ batch = NullObject
    /\ pdfText = Unset
    /\ requests = <<>>
    /\ disk = <<>>

markupVars == <<htmlContent, pieceCount, cleanedHtmlText, renormalized, givenStr,
                followed, targets, data>>

\* The extractor emits one more text block.
AddTextBlock(text, position) ==
    /\ pc = "extract"
    /\ Len(textContent) < MaxBlocks
    /\ textContent' = Append(textContent,
                          [page |-> 1, text |-> text, position |-> position])
    /\ UNCHANGED <<pc, imagePositions, analysis, below, markupVars, search, comparison, httpVars>>

\* The extractor emits one more image record.
AddImage(position) ==
    /\ pc = "extract"
    /\ Len(imagePositions) < MaxImages
    /\ imagePositions' = Append(imagePositions,
                             [page |-> 1, position |-> position, type |-> "image",
                              index |-> Len(imagePositions)])
    /\ UNCHANGED <<pc, textContent, analysis, below, markupVars, search, comparison, httpVars>>

AnalyzeTextImageRelationship(targetText, options) ==
    /\ pc = "extract"
    /\ analysis' =
          [targetText |-> targetText,
           options |-> options,
           results |-> analyzeTextImageRelationship(
                           [textContent |-> textContent,
                            imagePositions |-> imagePositions],
                           targetText, options)]
    /\ pc' = "analyzed"
    /\ UNCHANGED <<textContent, imagePositions, below, markupVars, search, comparison, httpVars>>

IsImageBelowText(i, j, lineHeight) ==
    /\ pc = "extract"
    /\ below' = [textPosition |-> textContent[i].position,
                 imagePosition |-> imagePositions[j].position,
                 lineHeight |-> lineHeight,
                 verdict |-> isImageBelowText(textContent[i].position,
                                 imagePositions[j].position, lineHeight)]
    /\ pc' = "probed"
    /\ UNCHANGED <<textContent, imagePositions, analysis, markupVars, search, comparison, httpVars>>

NextGeometric ==
    \/ \E text \in BlockTexts, position \in BlockPositions : AddTextBlock(text, position)
    \/ \E position \in ImageRects : AddImage(position)
    \/ \E targetText \in GeoTargets, options \in AnalysisOptions :
          AnalyzeTextImageRelationship(targetText, options)
    \/ \E i \in 1..Len(textContent), j \in 1..Len(imagePositions),
          lineHeight \in LineHeights : IsImageBelowText(i, j, lineHeight)

SpecGeometric == InitGeometric /\ [][NextGeometric]_vars

(***************************************************************************)
(* The free-text search as a state machine.                                *)
(***************************************************************************)
\* A run of n letters that holds no whitespace.
Pad(n) == [i \in 1..n |-> "x"]

\* Paragraphs of a document, trimmed and non-empty as extractWordContent
\* leaves them; two of them are longer than the context window.
SearchBlockTexts ==
    { <<"a", " ", "b">>, <<"a">>, <<"B", " ", "a">>,
      <<"a", " ">> \o Pad(55),
      Pad(30) \o <<" ", "a", " ">> \o Pad(30) }

SearchTexts == { <<"a">>, <<"A", " ", "b">> }

SearchTolerances == {DEFAULT_TOLERANCE, 5}

MaxResultsValues == {1, 10}

SearchOptions ==
    [caseSensitive : BOOLEAN, fuzzyMatch : BOOLEAN,
     tolerance : SearchTolerances, maxResults : MaxResultsValues]

SearchTextInDocument(searchText, options) ==
    /\ pc = "extract"
    /\ search' =
          [searchText |-> searchText,
           options |-> options,
           results |-> searchTextInDocument(
                           [textContent |-> textContent,
                            imagePositions |-> imagePositions],
                           searchText, options)]
    /\ pc' = "searched"
    /\ UNCHANGED <<textContent, imagePositions, analysis, below, markupVars, comparison, httpVars>>

NextSearch ==
    \/ \E text \in SearchBlockTexts, position \in BlockPositions :
          AddTextBlock(text, position)
    \/ \E searchText \in SearchTexts, options \in SearchOptions :
          SearchTextInDocument(searchText, options)
    \/ \E targetText \in SearchTexts, options \in AnalysisOptions :
          AnalyzeTextImageRelationship(targetText, options)

SpecSearch == InitGeometric /\ [][NextSearch]_vars

(***************************************************************************)
(* calculateSimilarity on its own: the two arguments are put together      *)
(* from words and whitespace, then compared.                               *)
(***************************************************************************)
MaxWords == 3

WordPieces == { <<"a">>, <<" ", "b">>, <<" ", "c">>, <<" ">> }

InitSimilarity ==
    /\ pc = "compare"
    /\ htmlContent = <<>>
    /\ pieceCount = 0
    /\ cleanedHtmlText = Unset
    /\ renormalized = Unset
    /\ givenStr = Unset
    /\ followed = FALSE
    /\ targets = Unset
    /\ data = Unset
    /\ textContent = <<>>
    /\ imagePositions = <<>>
    /\ analysis = NullObject
    /\ below = NullObject
    /\ search = NullObject
    /\ comparison = [text1 |-> <<>>, text2 |-> <<>>, count1 |-> 0, count2 |-> 0,
                     value |-> NullObject]
    /\ req = NullObject
    /\ res = <<>>
    /\ upload = NullObject
    /\ handler = NullObject
    /\ batch = NullObject
    /\ pdfText = Unset
    /\ requests = <<>>
    /\ disk = <<>>

AppendToText1(p) ==
    /\ pc = "compare"
    /\ comparison.count1 < MaxWords
    /\ comparison' = [comparison EXCEPT !.text1 = @ \o p, !.count1 = @ + 1]
    /\ UNCHANGED <<pc, markupVars, geoVars, search, httpVars>>

AppendToText2(p) ==
    /\ pc = "compare"
    /\ comparison.count2 < MaxWords
    /\ comparison' = [comparison EXCEPT !.text2 = @ \o p, !.count2 = @ + 1]
    /\ UNCHANGED <<pc, markupVars, geoVars, search, httpVars>>

CalculateSimilarity ==
    /\ pc = "compare"
    /\ comparison' = [comparison EXCEPT
                         !.value = calculateSimilarity(comparison.text1, comparison.text2)]
    /\ pc' = "compared"
    /\ UNCHANGED <<markupVars, geoVars, search, httpVars>>

NextSimilarity ==
    \/ \E p \in WordPieces : AppendToText1(p)
    \/ \E p \in WordPieces : AppendToText2(p)
    \/ CalculateSimilarity

SpecSimilarity == InitSimilarity /\ [][NextSimilarity]_vars

(***************************************************************************)
(* A request with one uploaded file: the upload middleware, the handler    *)
(* of the controller, the service call, the removal of the temp file and   *)
(* the response.                                                           *)
(***************************************************************************)
DETECT == "/detect-image-after-text"

FIND == "/find-text-position"

EXTRACT == "/extract-document-content"

DocumentEndpoints == {DETECT, FIND, EXTRACT}

\* Its handler recognizes the text of the extracted images after it has
\* removed the uploaded file.
ImageEndpoints == {"/extract-images"}

OcrEndpoints == {"/ocr/recognize"}

AiEndpoints == {"/ai/upload-analyze", "/openai/upload-analyze"}

UploadEndpoints == DocumentEndpoints \cup ImageEndpoints \cup OcrEndpoints \cup AiEndpoints

\* A request without a file part.
NoFile == "none"

\* The extension of the file a client uploads.
FileKinds == {"pdf", "png", "txt"}

\* The number of bytes of the uploaded file: none or some.
FileSizes == {0, 1}

\* The field targetText / searchText of the request: missing, empty,
\* whitespace only, or a text.
TextFields == { Null, <<>>, <<" ">>, <<"a">> }

\* The formats of the document endpoints.
supportedFormats == {"pdf", "docx", "doc"}

\* fileFilter of the upload middleware: TRUE when the file is accepted.
\* The AI endpoints filter on the MIME type.
fileFilter(endpoint, kind) ==
    IF endpoint \in AiEndpoints THEN kind \in {"txt", "png"}
    ELSE IF endpoint \in OcrEndpoints
         THEN kind \in {"jpg", "jpeg", "png", "gif", "bmp", "tiff", "webp"}
         ELSE kind \in supportedFormats

\* The error fileFilter hands to the error middleware; the message stands
\* for the one of the code.
filterError(endpoint) ==
    IF endpoint \in AiEndpoints
    THEN [code |-> "NONE", message |-> "unsupported file type"]
    ELSE [code |-> "NONE", message |-> "unsupported file format"]

BadRequest == [status |-> 400, success |-> FALSE]

Forbidden == [status |-> 403, success |-> FALSE]

ServerError == [status |-> 500, success |-> FALSE]

Ok == [status |-> 200, success |-> TRUE]

\* ErrorHandler.handleError: the response to an error of the middleware.
handleError(error) ==
    IF error.code = "LIMIT_FILE_SIZE" THEN BadRequest
    ELSE IF error.message = "unsupported file format" THEN BadRequest
    ELSE IF error.message = "origin not allowed" THEN Forbidden
    ELSE ServerError

\* The removal left out.
cleanupTempFile_skipped(file, removed) == file

\* fileUploadService.cleanupTempFile: removes the file if it exists; an
\* error of the removal is logged and swallowed.  removed tells whether
\* the file system carries the removal out.
cleanupTempFile(file, removed) ==
    IF file.exists
    THEN [file EXCEPT !.exists = ~removed, !.attempts = @ + 1, !.lastFailed = ~removed]
    ELSE file

\* fs.remove(path): as above, but an error is thrown to the caller.
fsRemove(file, removed) ==
    [file EXCEPT !.exists = file.exists /\ ~removed, !.attempts = @ + 1,
                 !.lastFailed = ~removed]

\* The checks of the handler between "a file was uploaded" and the call of
\* the service.
validRequest(request) ==
    CASE request.endpoint = DETECT ->
             request.text # Null /\ request.text # <<>>
      [] request.endpoint = FIND ->
             request.text # Null /\ request.text # <<>> /\ trim(request.text) # <<>>
      [] request.endpoint = EXTRACT -> request.file \in supportedFormats
      [] request.endpoint \in OcrEndpoints \cup ImageEndpoints -> request.size > 0
      [] OTHER -> TRUE

\* The checks of the service before it extracts anything: TRUE when it
\* throws.  (The format is supported and the file exists.)
serviceRejects(request) ==
    /\ request.endpoint \in {DETECT, FIND}
    /\ (request.text = Null \/ request.text = <<>> \/ trim(request.text) = <<>>)

InitUpload ==
    /\ pc = "request"
    /\ htmlContent = <<>>
    /\ pieceCount = 0
    /\ cleanedHtmlText = Unset
    /\ renormalized = Unset
    /\ givenStr = Unset
    /\ followed = FALSE
    /\ targets = Unset
    /\ data = Unset
    /\ textContent = <<>>
    /\ imagePositions = <<>>
    /\ analysis = NullObject
    /\ below = NullObject
    /\ search = NullObject
    /\ comparison = NullObject
    /\ req = NullObject
    /\ res = <<>>
    /\ upload = NullObject
    /\ handler = NullObject
    /\ batch = NullObject
    /\ pdfText = Unset
    /\ requests = <<>>
    /\ disk = <<>>

serviceVars == <<markupVars, geoVars, search, comparison, pdfText, concurrentVars>>

\* The upload middleware: it stores an accepted file, and hands a rejected
\* one to the error middleware.
Upload(endpoint, file, size, text) ==
    /\ pc = "request"
    /\ req' = [endpoint |-> endpoint, file |-> file, size |-> size, text |-> text]
    /\ handler' = [pending |-> NullObject, caught |-> FALSE, outcome |-> "none",
                   extractionRan |-> FALSE]
    /\ IF file # NoFile /\ ~fileFilter(endpoint, file)
       THEN /\ upload' = [stored |-> FALSE, exists |-> FALSE, attempts |-> 0,
                          lastFailed |-> FALSE]
            /\ res' = Append(res, handleError(filterError(endpoint)))
            /\ pc' = "done"
       ELSE /\ upload' = [stored |-> file # NoFile, exists |-> file # NoFile,
                          attempts |-> 0, lastFailed |-> FALSE]
            /\ res' = res
            /\ pc' = "handler"
    /\ UNCHANGED <<serviceVars, batch>>

\* The handler up to the call of the service.
Validate ==
    /\ pc = "handler"
    /\ IF req.file = NoFile
       THEN /\ res' = Append(res, BadRequest)
            /\ pc' = "done"
            /\ UNCHANGED handler
       ELSE IF ~validRequest(req)
       THEN /\ handler' = [handler EXCEPT !.pending = BadRequest]
            /\ pc' = "cleanup"
            /\ UNCHANGED res
       ELSE /\ pc' = "service"
            /\ UNCHANGED <<res, handler>>
    /\ UNCHANGED <<req, upload, serviceVars, batch>>

\* The call of the service; it returns or throws.
CallService(throws) ==
    /\ pc = "service"
    /\ LET rejects == serviceRejects(req)
           failed == rejects \/ throws
       IN  handler' = [pending |-> IF failed THEN ServerError ELSE Ok,
                       caught |-> failed,
                       outcome |-> IF failed THEN "throws" ELSE "ok",
                       extractionRan |-> ~rejects]
    /\ pc' = "cleanup"
    /\ UNCHANGED <<req, res, upload, serviceVars, batch>>

\* await this.fileUploadService.cleanupTempFile(...)
CleanupTempFile(removed) ==
    /\ pc = "cleanup"
    /\ req.endpoint \notin AiEndpoints
    /\ upload' = cleanupTempFile(upload, removed)
    /\ pc' = IF req.endpoint \in ImageEndpoints /\ handler.outcome = "ok" /\ ~handler.caught
             THEN "recognize" ELSE "respond"
    /\ UNCHANGED <<req, res, handler, serviceVars, batch>>

\* await Promise.all(promises) of handleFileUpload: the OCR calls on the
\* extracted images, made after the removal of the uploaded file; an error
\* leads to the catch block.
RecognizeExtracted(throws) ==
    /\ pc = "recognize"
    /\ IF throws
       THEN /\ handler' = [handler EXCEPT !.pending = ServerError, !.caught = TRUE,
                                          !.outcome = "throws"]
            /\ pc' = "cleanup"
       ELSE /\ pc' = "respond"
            /\ UNCHANGED handler
    /\ UNCHANGED <<req, res, upload, serviceVars, batch>>

\* await fs.remove(...) of the AI controllers: in the try block an error
\* leads to the catch block, in the catch block it leaves the handler.
FsRemove(removed) ==
    /\ pc = "cleanup"
    /\ req.endpoint \in AiEndpoints
    /\ upload' = fsRemove(upload, removed)
    /\ IF removed
       THEN pc' = "respond" /\ UNCHANGED handler
       ELSE IF handler.caught
       THEN pc' = "rejected" /\ UNCHANGED handler
       ELSE /\ handler' = [handler EXCEPT !.pending = ServerError, !.caught = TRUE]
            /\ pc' = "cleanup"
    /\ UNCHANGED <<req, res, serviceVars, batch>>

Respond ==
    /\ pc = "respond"
    /\ res' = Append(res, handler.pending)
    /\ pc' = "done"
    /\ UNCHANGED <<req, upload, handler, serviceVars, batch>>

NextUpload ==
    \/ \E endpoint \in UploadEndpoints, file \in FileKinds \cup {NoFile},
          size \in FileSizes, text \in TextFields :
          /\ file = NoFile => size = 0
          /\ Upload(endpoint, file, size, text)
    \/ Validate
    \/ \E throws \in BOOLEAN : CallService(throws)
    \/ \E removed \in BOOLEAN : CleanupTempFile(removed)
    \/ \E throws \in BOOLEAN : RecognizeExtracted(throws)
    \/ \E removed \in BOOLEAN : FsRemove(removed)
    \/ Respond

SpecUpload == InitUpload /\ [][NextUpload]_vars

(***************************************************************************)
(* A batch OCR request: one task per uploaded file, all started at once    *)
(* and interleaved at their awaits, and the response once Promise.all has  *)
(* their results.                                                          *)
(***************************************************************************)
MaxFiles == 3

\* An uploaded image: fine, empty (validateFile says no), or one the OCR
\* call fails on.
FileConditions == {"good", "empty", "corrupt"}

\* req.files: up to n files.
FileLists(n) == UNION { [1..k -> FileConditions] : k \in 0..n }

\* Promise.race in the place of Promise.all: the first task to finish.
promiseAll_race(tasks) == \E i \in 1..Len(tasks) : tasks[i].state = "fulfilled"

\* Promise.all(ocrPromises) has its value: every task has finished (no
\* task rejects: each catches its own errors).
promiseAll(tasks) == \A i \in 1..Len(tasks) : tasks[i].state = "fulfilled"

\* The data of the response, from the results of the tasks that finished,
\* in the order of req.files.
batchData(files, tasks) ==
    LET finished == SelectSeq([i \in 1..Len(tasks) |->
                                  [fileName |-> i, state |-> tasks[i].state,
                                   success |-> tasks[i].success]],
                              LAMBDA t : t.state = "fulfilled")
        batchResults == [k \in 1..Len(finished) |->
                            [fileName |-> finished[k].fileName,
                             success |-> finished[k].success]]
        results == SelectSeq(batchResults, LAMBDA r : r.success)
        errors == SelectSeq(batchResults, LAMBDA r : ~r.success)
    IN  [totalFiles |-> Len(files),
         successCount |-> Len(results),
         errorCount |-> Len(errors),
         results |-> results,
         errors |-> errors]

\* The upload middleware stores the files; the handler answers 400 when
\* there is none, and starts one task per file otherwise.
ReceiveBatch(files) ==
    /\ pc = "request"
    /\ req' = [endpoint |-> "/ocr/batch-recognize", files |-> files]
    /\ IF Len(files) = 0
       THEN /\ res' = Append(res, BadRequest)
            /\ batch' = [tasks |-> <<>>]
            /\ pc' = "done"
       ELSE /\ res' = res
            /\ batch' = [tasks |-> [i \in 1..Len(files) |->
                                       [state |-> "validate", success |-> FALSE,
                                        exists |-> TRUE]]]
            /\ pc' = "tasks"
    /\ UNCHANGED <<upload, handler, serviceVars>>

\* Task i: await validateFile; an invalid file throws into the catch block.
TaskValidate(i) ==
    /\ pc = "tasks"
    /\ i <= Len(batch.tasks)
    /\ batch.tasks[i].state = "validate"
    /\ batch' = [batch EXCEPT !.tasks[i].state =
                     IF req.files[i] = "empty" THEN "catch" ELSE "recognize"]
    /\ UNCHANGED <<pc, req, res, upload, handler, serviceVars>>

\* Task i: await recognizeText; a failed call throws into the catch block.
TaskRecognize(i) ==
    /\ pc = "tasks"
    /\ i <= Len(batch.tasks)
    /\ batch.tasks[i].state = "recognize"
    /\ batch' = [batch EXCEPT !.tasks[i].state =
                     IF req.files[i] = "corrupt" THEN "catch" ELSE "cleanup"]
    /\ UNCHANGED <<pc, req, res, upload, handler, serviceVars>>

\* Task i: await cleanupTempFile, in the try block or in the catch block,
\* and the return of the task's result.
TaskCleanup(i, removed) ==
    /\ pc = "tasks"
    /\ i <= Len(batch.tasks)
    /\ batch.tasks[i].state \in {"cleanup", "catch"}
    /\ batch' = [batch EXCEPT !.tasks[i] =
                     [state |-> "fulfilled",
                      success |-> batch.tasks[i].state = "cleanup",
                      exists |-> ~removed]]
    /\ UNCHANGED <<pc, req, res, upload, handler, serviceVars>>

\* await Promise.all(ocrPromises), the split into results and errors, and
\* res.json(responseData).
RespondBatch ==
    /\ pc = "tasks"
    /\ promiseAll(batch.tasks)
    /\ res' = Append(res, [status |-> 200, success |-> TRUE,
                           data |-> batchData(req.files, batch.tasks)])
    /\ pc' = "done"
    /\ UNCHANGED <<req, batch, upload, handler, serviceVars>>

NextBatch ==
    \/ \E files \in FileLists(MaxFiles) : ReceiveBatch(files)
    \/ \E i \in 1..MaxFiles : TaskValidate(i)
    \/ \E i \in 1..MaxFiles : TaskRecognize(i)
    \/ \E i \in 1..MaxFiles, removed \in BOOLEAN : TaskCleanup(i, removed)
    \/ RespondBatch

SpecBatch == InitUpload /\ [][NextBatch]_vars

(***************************************************************************)
(* Properties of the markup path.                                          *)
(***************************************************************************)
\* Some occurrence of t in text, at any index, has [image] right after it.
OccursFollowedByImage(text, t) ==
    \E i \in 1..Len(text) : MatchAt(text, i, t) /\ MatchAt(text, i + Len(t), IMAGE)

\* No "<" of s has a ">" after it.
NoTag(s) == ~\E i \in 1..Len(s) : \E j \in (i + 1)..Len(s) : s[i] = "<" /\ s[j] = ">"

\* C1: if a non-empty target occurs in the normalized text at any index with
\* [image] starting right after that occurrence, isFollowedByImage is true.
C1_AnyOccurrenceSuffices ==
    (pc = "matched" /\ givenStr # Null /\ givenStr # <<>>
       /\ OccursFollowedByImage(cleanedHtmlText, givenStr)) => followed

\* C2: isFollowedByImage is true only if the target is non-empty (and not
\* null) and some occurrence of it in the text has [image] starting at the
\* very next character.
C2_TrueOnlyIfAdjacent ==
    (pc = "matched" /\ followed) =>
        /\ givenStr # Null
        /\ givenStr # <<>>
        /\ OccursFollowedByImage(cleanedHtmlText, givenStr)

\* The matcher said yes for a target that occurs at least twice.
C2_Witness ==
    /\ pc = "matched"
    /\ followed
    /\ Len(split(cleanedHtmlText, givenStr)) >= 3

\* C3: the result of extractDocumentContent has one entry per target, in
\* the order given: the empty string iff [image] follows the target in the
\* normalized text, and otherwise the marker naming the target.
C3_OneEntryPerTarget ==
    pc = "extracted" =>
        LET text == extractTextFromHtml(htmlContent)
        IN  /\ Len(data.result) = Len(targets)
            /\ \A i \in 1..Len(targets) :
                  LET sat == isFollowedByImage(text, targets[i])
                  IN  /\ (data.result[i] = <<>>) <=> sat
                      /\ ~sat => data.result[i] = MISSING \o targets[i]

\* Two targets, the first missing and the second satisfied.
C3_Witness ==
    /\ pc = "extracted"
    /\ Len(targets) = 2
    /\ Len(data.result) = 2
    /\ data.result[1] = MISSING \o targets[1]
    /\ data.result[2] = <<>>

\* C4: the normalizer is idempotent.
C4_Idempotent ==
    pc = "renormalized" => renormalized = cleanedHtmlText

\* C5: the output of the normalizer holds neither "<" nor ">".
C5_NoAngleBrackets ==
    pc = "normalized" =>
        /\ ~includes(cleanedHtmlText, <<"<">>)
        /\ ~includes(cleanedHtmlText, <<">">>)

\* C5 as amended: after image replacement and tag stripping no "<" has a
\* ">" after it, and the output of an input without "&" holds no "<" with a
\* ">" after it.
C5_NoTagSurvives ==
    pc = "normalized" =>
        /\ NoTag(stripTags(replaceImageTags(trim(htmlContent))))
        /\ ~includes(htmlContent, <<"&">>) => NoTag(cleanedHtmlText)

\* An input without "&" that holds a tag, whose output keeps a lone ">".
C5_Witness ==
    /\ pc = "normalized"
    /\ ~includes(htmlContent, <<"&">>)
    /\ ~NoTag(htmlContent)
    /\ includes(cleanedHtmlText, <<">">>)

\* C6: the output never holds two [image] tokens that are adjacent or
\* separated only by whitespace.
C6_NoAdjacentPlaceholders ==
    pc = "normalized" =>
        ~\E i \in 1..Len(cleanedHtmlText) :
            /\ MatchAt(cleanedHtmlText, i, IMAGE)
            /\ MatchAt(cleanedHtmlText, firstNonSpace(cleanedHtmlText, i + Len(IMAGE)), IMAGE)

\* The names of the image-bearing elements: those without and with content.
VoidImageNames == { <<"i", "m", "g">>, <<"i", "m", "a", "g", "e">> }

ContainerImageNames ==
    { <<"p", "i", "c", "t", "u", "r", "e">>, <<"f", "i", "g", "u", "r", "e">>,
      <<"s", "v", "g">>, <<"c", "a", "n", "v", "a", "s">> }

\* h is one image-bearing element and nothing else: a tag <name ...>, or
\* <name ...> content </name> with content free of markup.
IsImageElement(h) ==
    LET gt == indexOf(h, <<">">>, 1)
    IN  /\ gt # 0
        /\ \A m \in 2..(gt - 1) : h[m] # "<"
        /\ \/ /\ gt = Len(h)
              /\ \E n \in VoidImageNames : MatchAtCI(h, 1, <<"<">> \o n)
           \/ \E n \in ContainerImageNames :
                 LET close == <<"<", "/">> \o n \o <<">">>
                     from == Len(h) - Len(close) + 1
                 IN  /\ MatchAtCI(h, 1, <<"<">> \o n)
                     /\ from > gt
                     /\ MatchAtCI(h, from, close)
                     /\ \A m \in (gt + 1)..(from - 1) : h[m] \notin {"<", ">", "&"}

\* C7: an image-bearing element, whatever its letter case, attributes and
\* content (content spanning several lines included), is replaced by
\* [image]: the placeholder is in the output and no inner text is.
C7_ImageElementReplaced ==
    (pc = "normalized" /\ IsImageElement(htmlContent)) => cleanedHtmlText = IMAGE

(***************************************************************************)
(* Properties of the geometric path.                                       *)
(***************************************************************************)
\* The image qualifies for the text block at textPosition: its distance is
\* within the radius and its top lies in the band below the block.
Qualifies(textPosition, imagePosition, searchRadius, lineHeight) ==
    LET dx == imagePosition.x - textPosition.x
        dy == imagePosition.y - textPosition.y
        textBottom == textPosition.y + textPosition.height
    IN  /\ searchRadius >= 0
        /\ dx * dx + dy * dy <= searchRadius * searchRadius
        /\ 2 * (imagePosition.y - textBottom) >= lineHeight
        /\ imagePosition.y - textBottom <= 3 * lineHeight

\* C8: when a block matches, hasImageAfter is true iff some image record
\* qualifies, and imageDetails is exactly the qualifying images in the
\* order of imagePositions, each with isBelowText true and its distance
\* within the radius.
C8_DetailsAreQualifyingImages ==
    (pc = "analyzed" /\ analysis.results.foundText) =>
        LET r == analysis.results
            o == analysis.options
            qualifying == SelectSeq(imagePositions, LAMBDA img :
                              Qualifies(r.textPosition, img.position,
                                        o.searchRadius, o.lineHeight))
        IN  /\ r.hasImageAfter <=> Len(qualifying) > 0
            /\ Len(r.imageDetails) = Len(qualifying)
            /\ \A k \in 1..Len(qualifying) :
                  /\ r.imageDetails[k].position = qualifying[k].position
                  /\ r.imageDetails[k].index = qualifying[k].index
                  /\ r.imageDetails[k].isBelowText
                  /\ r.imageDetails[k].distanceSquared <= o.searchRadius * o.searchRadius

\* A matched block with two image records of which only the second
\* qualifies.
C8_Witness ==
    /\ pc = "analyzed"
    /\ analysis.results.foundText
    /\ Len(imagePositions) = 2
    /\ Len(analysis.results.imageDetails) = 1
    /\ analysis.results.imageDetails[1].index = 1

\* C9: isImageBelowText is true iff textBottom + lineHeight / 2 <= image.y
\* <= textBottom + 3 * lineHeight, both bounds included: with textBottom =
\* 100 and lineHeight = 20, 109 fails, 110 and 160 pass, 161 fails.
C9_BandInclusive ==
    pc = "probed" =>
        LET textBottom == below.textPosition.y + below.textPosition.height
            y == below.imagePosition.y
            gap2 == 2 * (y - textBottom)
        IN  /\ below.verdict <=>
                  (below.lineHeight <= gap2 /\ gap2 <= 6 * below.lineHeight)
            /\ (textBottom = 100 /\ below.lineHeight = 20) =>
                  /\ y = 109 => ~below.verdict
                  /\ y = 110 => below.verdict
                  /\ y = 160 => below.verdict
                  /\ y = 161 => ~below.verdict

\* The lower boundary itself: textBottom 100, lineHeight 20, image at 110.
C9_Witness ==
    /\ pc = "probed"
    /\ below.textPosition.y + below.textPosition.height = 100
    /\ below.lineHeight = 20
    /\ below.imagePosition.y = 110
    /\ below.verdict

\* The block's text contains the target: case-insensitive, both trimmed.
ContainsTarget(text, targetText) ==
    \E i \in 1..(Len(text) + 1) :
        MatchAt(trim(toLowerCase(text)), i, trim(toLowerCase(targetText)))

\* C10: with fuzzyMatch false a block is matched only if its text contains
\* the target as a substring.
C10_ExactModeNeedsSubstring ==
    (pc = "analyzed" /\ ~analysis.options.fuzzyMatch /\ analysis.results.foundText) =>
        \E i \in 1..Len(textContent) :
            /\ textContent[i].position = analysis.results.textPosition
            /\ ContainsTarget(textContent[i].text, analysis.targetText)

(***************************************************************************)
(* Properties of the text matcher and of the free-text search.             *)
(***************************************************************************)
\* The tolerance the analyzer hands to the matcher.
ToleranceOf(options) ==
    IF options.fuzzyMatch THEN options.tolerance ELSE EXACT_TOLERANCE

\* The result of the search holds a match for the block.
Found(results, block) ==
    \E k \in 1..Len(results) :
        /\ results[k].position = block.position
        /\ results[k].matchedText = block.text

\* C11: a block that contains the target as a case-insensitive substring
\* is matched by the analyzer for every tolerance and is found by a search
\* with fuzzyMatch true; hence every block an exact search finds, the same
\* search with fuzzyMatch true finds too (the results not being cut at
\* maxResults).
C11_ContainmentAlwaysMatches ==
    /\ (pc = "analyzed"
          /\ \E i \in 1..Len(textContent) :
                ContainsTarget(textContent[i].text, analysis.targetText))
          => analysis.results.foundText
    /\ (pc = "searched" /\ search.options.fuzzyMatch
          /\ Len(search.results) < search.options.maxResults) =>
          LET exact == searchTextInDocument(
                           [textContent |-> textContent,
                            imagePositions |-> imagePositions],
                           search.searchText,
                           [search.options EXCEPT !.fuzzyMatch = FALSE])
          IN  /\ \A i \in 1..Len(textContent) :
                    ContainsTarget(textContent[i].text, search.searchText)
                        => Found(search.results, textContent[i])
              /\ \A k \in 1..Len(exact) :
                    Found(search.results,
                          [position |-> exact[k].position, text |-> exact[k].matchedText])

\* The fraction is the number one / the same number as another fraction /
\* a number of [0,1].
IsOne(f) == f.num = f.den

SameFraction(f, g) == f.num * g.den = g.num * f.den

InUnitInterval(f) == f.den > 0 /\ 0 <= f.num /\ f.num <= f.den

\* C12: the confidence of a matched block is 1.0 when the block contains
\* the target as a substring and the word-overlap similarity of block text
\* and target otherwise, in the verdict of the analyzer and in the results
\* of the search, and it lies in [0,1].
C12_ConfidenceOfMatch ==
    /\ (pc = "analyzed" /\ analysis.results.foundText) =>
          /\ InUnitInterval(analysis.results.confidence)
          /\ \E i \in 1..Len(textContent) :
                /\ textContent[i].position = analysis.results.textPosition
                /\ IF ContainsTarget(textContent[i].text, analysis.targetText)
                   THEN IsOne(analysis.results.confidence)
                   ELSE SameFraction(analysis.results.confidence,
                            calculateSimilarity(toLowerCase(textContent[i].text),
                                                toLowerCase(analysis.targetText)))
    /\ pc = "searched" =>
          \A k \in 1..Len(search.results) :
              LET r == search.results[k]
                  text == IF search.options.caseSensitive THEN r.matchedText
                          ELSE toLowerCase(r.matchedText)
                  wanted == IF search.options.caseSensitive THEN search.searchText
                            ELSE toLowerCase(search.searchText)
              IN  /\ InUnitInterval(r.confidence)
                  /\ IF includes(text, wanted) THEN IsOne(r.confidence)
                     ELSE SameFraction(r.confidence, calculateSimilarity(text, wanted))

\* The text matches the target: it contains it, or their word overlap
\* reaches the tolerance.
Matches(text, targetText, tolerance) ==
    /\ text # <<>>
    /\ targetText # <<>>
    /\ \/ ContainsTarget(text, targetText)
       \/ AtLeast(calculateSimilarity(trim(toLowerCase(text)),
                                      trim(toLowerCase(targetText))), tolerance)

\* C13: when no text block matches the target, the analyzer returns
\* hasImageAfter false, textPosition null, confidence 0 and no image
\* details, whatever images the document holds.
C13_NoMatchDefaults ==
    (pc = "analyzed"
       /\ \A i \in 1..Len(textContent) :
             ~Matches(textContent[i].text, analysis.targetText,
                      ToleranceOf(analysis.options))) =>
        /\ ~analysis.results.foundText
        /\ ~analysis.results.hasImageAfter
        /\ analysis.results.textPosition = NullObject
        /\ analysis.results.confidence.num = 0
        /\ analysis.results.imageDetails = <<>>

\* No block matches although the document has a block with an image in
\* the band below it.
C13_Witness ==
    /\ pc = "analyzed"
    /\ ~analysis.results.foundText
    /\ \E i \in 1..Len(textContent), j \in 1..Len(imagePositions) :
          Qualifies(textContent[i].position, imagePositions[j].position,
                    analysis.options.searchRadius, analysis.options.lineHeight)

\* How many entries of the list are the entry e.
CountOf(list, e) == Cardinality({i \in 1..Len(list) : list[i] = e})

\* Every match of the whole document, in document order: the search with
\* no limit on the number of results, before sorting.
AllMatches ==
    searchLoop(textContent, search.searchText,
        [search.options EXCEPT !.maxResults = Len(textContent) + 1], 1, <<>>)

\* C15: the matches returned are the maxResults matching blocks of the
\* whole document with the highest confidence, in descending order of
\* confidence: no matching block that was left out has a strictly higher
\* confidence than a block that was returned.
C15_HighestConfidenceReturned ==
    pc = "searched" =>
        LET results == search.results
            all == AllMatches
        IN  /\ Len(results) = Min(search.options.maxResults, Len(all))
            /\ \A k \in 1..(Len(results) - 1) : ~LessConfident(results[k], results[k + 1])
            /\ \A i \in 1..Len(all) :
                  (\E k \in 1..Len(results) : LessConfident(results[k], all[i]))
                      => CountOf(results, all[i]) = CountOf(all, all[i])

\* The context is a window text[i+1..j] of the block's text, with "..." in
\* front iff i > 0 and "..." behind iff j < Len(text).
IsMarkedWindow(context, text) ==
    \E i \in 0..Len(text) : \E j \in i..Len(text) :
        context = (IF i > 0 THEN ELLIPSIS ELSE <<>>)
                      \o SubSeq(text, i + 1, j)
                      \o (IF j < Len(text) THEN ELLIPSIS ELSE <<>>)

\* C16: the context of every search match begins with "..." iff block text
\* before the window was left out and ends with "..." iff block text after
\* the window was left out; a context that is not the whole text of the
\* block holds at least one ellipsis.
C16_ContextMarksCuts ==
    pc = "searched" =>
        \A k \in 1..Len(search.results) :
            LET r == search.results[k]
            IN  /\ IsMarkedWindow(r.context, r.matchedText)
                /\ r.context # r.matchedText =>
                      \/ MatchAt(r.context, 1, ELLIPSIS)
                      \/ MatchAt(r.context, Len(r.context) - 2, ELLIPSIS)

\* The words of s: its maximal runs of characters that are not whitespace.
Words(s) == SelectSeq(splitWords(s), LAMBDA w : w # <<>>)

\* C14: calculateSimilarity(a, b) is the number of whitespace-separated
\* words of a that occur in b's word list, divided by max(wordCount(a),
\* wordCount(b)); it is 0 whenever either string is empty, both empty
\* included; it lies in [0,1]; and similarity("a b c", "a b") = 2/3.
C14_WordOverlapFormula ==
    pc = "compared" =>
        LET a == comparison.text1
            b == comparison.text2
            v == comparison.value
            wordsA == Words(a)
            wordsB == Words(b)
            common == Cardinality({i \in 1..Len(wordsA) :
                          \E j \in 1..Len(wordsB) : wordsB[j] = wordsA[i]})
            total == Max(Len(wordsA), Len(wordsB))
        IN  /\ InUnitInterval(v)
            /\ (a = <<>> \/ b = <<>> \/ total = 0) => v.num = 0
            /\ (a # <<>> /\ b # <<>> /\ total > 0) => v.num * total = common * v.den
            /\ (a = <<"a", " ", "b", " ", "c">> /\ b = <<"a", " ", "b">>)
                  => (v.num * 3 = 2 * v.den)

(***************************************************************************)
(* Properties of the upload endpoints.                                     *)
(***************************************************************************)
\* C17: on a document or OCR upload endpoint, when the response of a
\* request whose file was stored is sent (and from then on), the removal
\* of the file has been attempted, and if the removal succeeded the file
\* no longer exists: on success, on a validation failure and on an
\* exception alike.
C17_CleanupBeforeResponse ==
    (pc \in {"respond", "done"}
       /\ req.endpoint \in DocumentEndpoints \cup ImageEndpoints \cup OcrEndpoints
       /\ upload.stored) =>
        /\ upload.attempts >= 1
        /\ ~upload.lastFailed => ~upload.exists

\* A request of a document endpoint whose extraction threw: answered with
\* 500 after the stored file was removed.
C17_Witness ==
    /\ pc = "done"
    /\ req.endpoint \in DocumentEndpoints
    /\ upload.stored
    /\ handler.extractionRan
    /\ res = <<ServerError>>
    /\ upload.attempts = 1
    /\ ~upload.exists

\* C18: a failure to delete the temp file is never thrown: every request
\* of an upload endpoint ends with exactly one response, which is the one
\* it gets when the deletion succeeds (200 when the service returned, 500
\* when it threw, 400 when the request was rejected).
C18_DeletionErrorSwallowed ==
    (pc \in {"done", "rejected"} /\ upload.stored) =>
        /\ Len(res) = 1
        /\ res[1] = IF handler.outcome = "ok" THEN Ok
                    ELSE IF handler.outcome = "throws" THEN ServerError
                    ELSE BadRequest

\* The input of the request is invalid: no file, an unsupported
\* extension, or a missing or blank targetText / searchText.
InvalidInput(request) ==
    \/ request.file = NoFile
    \/ request.file \notin supportedFormats
    \/ /\ request.endpoint \in {DETECT, FIND}
       /\ (request.text = Null \/ trim(request.text) = <<>>)

\* C20: a request to /detect-image-after-text, /find-text-position or
\* /extract-document-content with invalid input is answered with 400 and
\* success false, never with 500, and no extraction is run for it.
C20_InvalidInputIs400 ==
    (pc = "done" /\ req.endpoint \in DocumentEndpoints /\ InvalidInput(req)) =>
        /\ res = <<BadRequest>>
        /\ ~handler.extractionRan

\* C19: the response of a batch OCR request with n >= 1 files is sent only
\* after all n tasks have finished, whatever the order they finish in; it
\* is a 200 success response; every file is in exactly one of results and
\* errors; and successCount + errorCount = totalFiles = n.
C19_BatchPartialSuccess ==
    (pc = "done" /\ Len(req.files) >= 1) =>
        LET n == Len(req.files)
            d == res[1].data
            inResults(i) == Cardinality({k \in 1..Len(d.results) :
                                            d.results[k].fileName = i})
            inErrors(i) == Cardinality({k \in 1..Len(d.errors) :
                                           d.errors[k].fileName = i})
        IN  /\ \A i \in 1..n : batch.tasks[i].state = "fulfilled"
            /\ Len(res) = 1
            /\ res[1].status = 200
            /\ res[1].success
            /\ \A i \in 1..n :
                  /\ inResults(i) + inErrors(i) = 1
                  /\ inResults(i) = 1 <=> req.files[i] = "good"
            /\ d.totalFiles = n
            /\ d.successCount = Len(d.results)
            /\ d.errorCount = Len(d.errors)
            /\ d.successCount + d.errorCount = n

\* Three files, the second corrupt: two successes and one error.
C19_Witness ==
    /\ pc = "done"
    /\ req.files = <<"good", "corrupt", "good">>
    /\ res[1].data.successCount = 2
    /\ res[1].data.errorCount = 1

(***************************************************************************)
(* Properties of the analyzer's scan and of the image details.             *)
(***************************************************************************)
\* The test the scan of analyzeTextImageRelationship applies to a block.
ScanMatches(block, targetText, options) ==
    isTextMatch(block.text, targetText,
                IF options.fuzzyMatch THEN options.tolerance ELSE EXACT_TOLERANCE)

\* The first block, in the order of textContent, that the scan matches.
FirstMatch ==
    CHOOSE i \in 1..Len(textContent) :
        /\ ScanMatches(textContent[i], analysis.targetText, analysis.options)
        /\ \A j \in 1..(i - 1) :
              ~ScanMatches(textContent[j], analysis.targetText, analysis.options)

C26_RelativePositionIsEnum ==
    pc = "analyzed" =>
        \A k \in 1..Len(analysis.results.imageDetails) :
            LET d == analysis.results.imageDetails[k]
                t == analysis.results.textPosition
                textCenterX2 == 2 * t.x + t.width
                imageCenterX2 == 2 * d.position.x + d.position.width
            IN  d.relativePosition =
                    IF imageCenterX2 < textCenterX2 - 100 THEN <<"l", "e", "f", "t">>
                    ELSE IF imageCenterX2 > textCenterX2 + 100
                         THEN <<"r", "i", "g", "h", "t">>
                         ELSE <<"c", "e", "n", "t", "e", "r">>

(***************************************************************************)
(* The PDF extractor: one text block per page, one image record on every   *)
(* page of even index.  The page sizes are even numbers, so that width / 2 *)
(* and height / 2 are integers.                                            *)
(***************************************************************************)
MaxPages == 3

DecimalDigits == <<"0", "1", "2", "3", "4", "5", "6", "7", "8", "9">>

RECURSIVE toDecimal(_)
\* The decimal numeral that the template literal makes of i + 1.
toDecimal(n) ==
    IF n < 10 THEN <<DecimalDigits[n + 1]>>
    ELSE toDecimal(n \div 10) \o <<DecimalDigits[(n % 10) + 1]>>

MOCK_TEXT_HEAD == <<"U+7B2C">>

MOCK_TEXT_TAIL ==
    <<"U+9875">> \o
    <<"U+5185", "U+5BB9", " ", "-", " ", "U+8FD9", "U+662F", "U+4E00",
      "U+4E2A", "U+793A", "U+4F8B", "U+6587", "U+6863", "U+9875", "U+9762",
      "U+FF0C", "U+5305", "U+542B", "U+5404", "U+79CD", "U+6587", "U+672C",
      "U+5185", "U+5BB9", "U+3002", "U+5728", "U+5B9E", "U+9645", "U+5E94",
      "U+7528", "U+4E2D", "U+FF0C", "U+8FD9", "U+91CC", "U+4F1A", "U+5305",
      "U+542B", "U+4ECE", "P", "D", "F", "U+4E2D", "U+63D0", "U+53D6",
      "U+7684", "U+771F", "U+5B9E", "U+6587", "U+672C", "U+5185", "U+5BB9",
      "U+3002">>

mockTextContent(i) == MOCK_TEXT_HEAD \o toDecimal(i + 1) \o MOCK_TEXT_TAIL

RECURSIVE pdfPages(_, _, _)
\* The loop over the pages from index i on; pages[i + 1] is page.getSize().
pdfPages(pages, i, contentInfo) ==
    IF i >= Len(pages) THEN contentInfo
    ELSE LET width == pages[i + 1].width
             height == pages[i + 1].height
             withText ==
                 Append(contentInfo.textContent,
                     [page |-> i + 1,
                      text |-> mockTextContent(i),
                      position |-> [x |-> 50, y |-> height - 100,
                                    width |-> width - 100, height |-> height - 200]])
             withImage ==
                 IF i % 2 = 0
                 THEN Append(contentInfo.imagePositions,
                          [page |-> i + 1,
                           position |-> [x |-> width \div 2, y |-> height \div 2,
                                         width |-> 200, height |-> 150],
                           type |-> "image",
                           index |-> i])
                 ELSE contentInfo.imagePositions
         IN  pdfPages(pages, i + 1,
                 [textContent |-> withText, imagePositions |-> withImage])

extractPdfContent(pages) ==
    pdfPages(pages, 0, [textContent |-> <<>>, imagePositions |-> <<>>])

\* Sizes of a page, in points: two small pages and a large one.
PageSizes ==
    { [width |-> 100, height |-> 140],
      [width |-> 100, height |-> 170],
      [width |-> 600, height |-> 800] }

PdfDocuments(n) == UNION { [1..k -> PageSizes] : k \in 0..n }

\* Targets: the head of page 2's text, and a word every page's text holds.
PdfTargets ==
    { <<"U+7B2C", "2", "U+9875">>, <<"U+5185", "U+5BB9">> }

ExtractPdfContent(pages) ==
    /\ pc = "extract"
    /\ textContent = <<>>
    /\ imagePositions = <<>>
    /\ textContent' = extractPdfContent(pages).textContent
    /\ imagePositions' = extractPdfContent(pages).imagePositions
    /\ UNCHANGED <<pc, analysis, below, markupVars, search, comparison, httpVars>>

NextPdf ==
    \/ \E pages \in PdfDocuments(MaxPages) : ExtractPdfContent(pages)
    \/ \E targetText \in PdfTargets, options \in AnalysisOptions :
          AnalyzeTextImageRelationship(targetText, options)

SpecPdf == InitGeometric /\ [][NextPdf]_vars

\* C29: every image listed in imageDetails is on the page of the matched
\* text block: an image record of another page never makes hasImageAfter
\* true.
C29_ImagesOnSamePage ==
    (pc = "analyzed" /\ analysis.results.foundText) =>
        \A k \in 1..Len(analysis.results.imageDetails) :
            \A m \in 1..Len(imagePositions) :
                (/\ imagePositions[m].index = analysis.results.imageDetails[k].index
                 /\ imagePositions[m].position = analysis.results.imageDetails[k].position)
                    => imagePositions[m].page = textContent[FirstMatch].page

(***************************************************************************)
(* The Word extractor for a .docx that mammoth can read: one text block    *)
(* per non-empty line of the raw text, one image record per zip entry      *)
(* under word/media/.                                                      *)
(***************************************************************************)
MaxLines == 7
MaxMedia == 2

LINE_FEED == <<"\n">>

\* A line pitch of 25 in place of 30.
wordParagraphPosition_pitch25(index) ==
    [x |-> 50, y |-> 100 + index * 25, width |-> 700, height |-> 25]

\* The position given to the paragraph of index `index`.
wordParagraphPosition(index) ==
    [x |-> 50, y |-> 100 + index * 30, width |-> 700, height |-> 25]

\* The position given to the media entry of index imageIndex.
wordImagePosition(imageIndex) ==
    [x |-> 100 + imageIndex * 250, y |-> 300, width |-> 200, height |-> 150]

\* extractedText is mammoth's raw text, mediaCount the number of zip
\* entries whose name starts with word/media/.
extractWordContent(extractedText, mediaCount) ==
    LET paragraphs == SelectSeq(split(extractedText, LINE_FEED),
                                LAMBDA p : Len(trim(p)) > 0)
    IN  [textContent |->
             [k \in 1..Len(paragraphs) |->
                 [page |-> 1,
                  text |-> trim(paragraphs[k]),
                  position |-> wordParagraphPosition(k - 1)]],
         imagePositions |->
             [k \in 1..mediaCount |->
                 [page |-> 1,
                  position |-> wordImagePosition(k - 1),
                  type |-> "image",
                  index |-> k - 1]]]

\* Lines of the raw text: two words, one of them with whitespace around
\* it, and the empty line that separates paragraphs.
RawLines == { <<"a">>, <<" ", "b", " ">>, <<>> }

RawTexts(n) ==
    { join(lines, LINE_FEED) : lines \in UNION { [1..k -> RawLines] : k \in 1..n } }

WordTargets == { <<"a">>, <<"b">> }

DEFAULT_SEARCH_RADIUS == 100

DEFAULT_LINE_HEIGHT == 20

\* The options checkImageAfterText passes on when the caller gives none.
DefaultOptions ==
    [searchRadius |-> DEFAULT_SEARCH_RADIUS, tolerance |-> DEFAULT_TOLERANCE,
     lineHeight |-> DEFAULT_LINE_HEIGHT, fuzzyMatch |-> FALSE]

ExtractWordContent(extractedText, mediaCount) ==
    /\ pc = "extract"
    /\ textContent = <<>>
    /\ imagePositions = <<>>
    /\ textContent' = extractWordContent(extractedText, mediaCount).textContent
    /\ imagePositions' = extractWordContent(extractedText, mediaCount).imagePositions
    /\ UNCHANGED <<pc, analysis, below, markupVars, search, comparison, httpVars>>

NextWord ==
    \/ \E extractedText \in RawTexts(MaxLines), mediaCount \in 0..MaxMedia :
          ExtractWordContent(extractedText, mediaCount)
    \/ \E targetText \in WordTargets :
          AnalyzeTextImageRelationship(targetText, DefaultOptions)

SpecWord == InitGeometric /\ [][NextWord]_vars

\* C30: for a .docx analysed with the default options, hasImageAfter is
\* true iff the document has at least one media entry and the first
\* matching non-empty line is the 5th or the 6th (k = 4 or k = 5), and then
\* imageDetails holds the first media entry and nothing else.
C30_WordLayoutVerdict ==
    (pc = "analyzed" /\ analysis.options = DefaultOptions) =>
        LET r == analysis.results
            matched == \E i \in 1..Len(textContent) :
                          ScanMatches(textContent[i], analysis.targetText, analysis.options)
        IN  /\ r.hasImageAfter <=>
                  /\ Len(imagePositions) >= 1
                  /\ matched
                  /\ FirstMatch - 1 \in {4, 5}
            /\ r.hasImageAfter =>
                  /\ Len(r.imageDetails) = 1
                  /\ r.imageDetails[1].index = 0
                  /\ r.imageDetails[1].position = imagePositions[1].position

\* The first matching line is the 6th, the document has two media entries,
\* and the verdict lists the first of them.
C30_Witness ==
    /\ pc = "analyzed"
    /\ analysis.options = DefaultOptions
    /\ Len(imagePositions) = 2
    /\ Len(textContent) = 7
    /\ ScanMatches(textContent[6], analysis.targetText, analysis.options)
    /\ \A j \in 1..5 :
          ~ScanMatches(textContent[j], analysis.targetText, analysis.options)
    /\ analysis.results.hasImageAfter
    /\ Len(analysis.results.imageDetails) = 1

(***************************************************************************)
(* /find-text-position: the handler reads the options from the fields of   *)
(* the multipart body, which are strings, and the service searches the     *)
(* extracted text blocks.                                                  *)
(***************************************************************************)
IsDigit(c) == \E d \in 1..10 : DecimalDigits[d] = c

DigitValue(c) == (CHOOSE d \in 1..10 : DecimalDigits[d] = c) - 1

RECURSIVE parseDigits(_, _, _)
parseDigits(s, i, acc) ==
    IF i <= Len(s) /\ IsDigit(s[i]) THEN parseDigits(s, i + 1, 10 * acc + DigitValue(s[i]))
    ELSE acc

\* parseInt of a field that starts with a digit: the value of its leading
\* digits.
parseInt(s) == parseDigits(s, 1, 0)

DEFAULT_MAX_RESULTS == 10

\* The options findTextPosition of the controller builds from req.body.  A
\* field that is absent is Null; an empty string is falsy, every other
\* string is truthy.
findTextOptions(body) ==
    [caseSensitive |-> body.caseSensitive = <<"t", "r", "u", "e">>,
     fuzzyMatch |-> body.fuzzyMatch = <<"t", "r", "u", "e">>,
     tolerance |-> DEFAULT_TOLERANCE,
     maxResults |-> IF body.maxResults # Null /\ body.maxResults # <<>>
                    THEN parseInt(body.maxResults)
                    ELSE DEFAULT_MAX_RESULTS]

\* data of the result of the service's findTextPosition.
findTextPosition(contentInfo, searchText, options) ==
    LET searchResults == searchTextInDocument(contentInfo, searchText, options)
    IN  [searchText |-> searchText,
         totalMatches |-> Len(searchResults),
         matches |-> searchResults]

FindBlockTexts == { <<"a">>, <<"a", " ", "b">>, <<"B", " ", "a">> }

BooleanFields == { Null, <<"t", "r", "u", "e">> }

MaxResultsFields == { Null, <<>>, <<"0">>, <<"1">>, <<"2">> }

FindBodies ==
    [caseSensitive : BooleanFields, fuzzyMatch : BooleanFields,
     maxResults : MaxResultsFields]

FindTextPosition(searchText, body) ==
    /\ pc = "extract"
    /\ search' =
          [searchText |-> searchText,
           body |-> body,
           options |-> findTextOptions(body),
           results |-> searchTextInDocument(
                           [textContent |-> textContent,
                            imagePositions |-> imagePositions],
                           searchText, findTextOptions(body)),
           data |-> findTextPosition(
                        [textContent |-> textContent,
                         imagePositions |-> imagePositions],
                        searchText, findTextOptions(body))]
    /\ pc' = "found"
    /\ UNCHANGED <<textContent, imagePositions, analysis, below, markupVars, comparison, httpVars>>

NextFind ==
    \/ \E text \in FindBlockTexts, position \in BlockPositions :
          AddTextBlock(text, position)
    \/ \E searchText \in SearchTexts, body \in FindBodies :
          FindTextPosition(searchText, body)

SpecFind == InitGeometric /\ [][NextFind]_vars

\* C25: for every integer maxResults >= 0 that the request carries, the
\* number of matches returned never exceeds maxResults, and totalMatches is
\* the length of the list of matches.
C25_AtMostMaxResults ==
    (pc = "found" /\ search.body.maxResults # Null /\ search.body.maxResults # <<>>) =>
        /\ Len(search.data.matches) <= parseInt(search.body.maxResults)
        /\ search.data.totalMatches = Len(search.data.matches)

(***************************************************************************)
(* What the document service does with a file it cannot read or parse.     *)
(* The libraries (fs, pdf-lib, pdf-parse, mammoth, adm-zip) are outside    *)
(* the repository: the condition of the uploaded file says which of their  *)
(* calls fail.                                                             *)
(*   "good"         every call succeeds                                    *)
(*   "unreadable"   the file cannot be read: every call on it fails        *)
(*   "corrupt"      the bytes are not of the format: every parser fails,   *)
(*                  adm-zip included                                       *)
(*   "badDocument"  a .docx whose archive opens but whose document         *)
(*                  mammoth rejects; for the other formats as "corrupt"    *)
(***************************************************************************)
DocumentConditions == {"good", "unreadable", "corrupt", "badDocument"}

\* extractPdfContent: fs.readFile and PDFDocument.load are inside the try
\* block whose catch block throws.
extractPdfContentThrows(condition) == condition # "good"

\* extractWordContent.  A .docx: an error of mammoth.extractRawText or of
\* new AdmZip leads to the fallback, whose own new AdmZip is not guarded.
\* A .doc is not read at all.
extractWordContentThrows(kind, condition) ==
    kind = "docx" /\ condition \in {"unreadable", "corrupt"}

\* extractDocumentContent.  An error of mammoth.convertToHtml leaves the
\* function; an error of fs.readFile or of pdfParse is caught and
\* convertPdfToHtmlBasic supplies the markup.
extractDocumentContentThrows(kind, condition) ==
    kind \in {"doc", "docx"} /\ condition # "good"

\* TRUE when the service's call throws once its checks have passed.
extractionThrows(endpoint, kind, condition) ==
    IF endpoint = EXTRACT THEN extractDocumentContentThrows(kind, condition)
    ELSE IF kind = "pdf" THEN extractPdfContentThrows(condition)
    ELSE extractWordContentThrows(kind, condition)

\* The call of the service on a file in the given condition.
ExtractContent(condition) ==
    /\ pc = "service"
    /\ LET rejects == serviceRejects(req)
           failed == rejects \/ extractionThrows(req.endpoint, req.file, condition)
       IN  handler' = [pending |-> IF failed THEN ServerError ELSE Ok,
                       caught |-> failed,
                       outcome |-> IF failed THEN "throws" ELSE "ok",
                       extractionRan |-> ~rejects,
                       condition |-> condition]
    /\ pc' = "cleanup"
    /\ UNCHANGED <<req, res, upload, serviceVars, batch>>

NextExtraction ==
    \/ \E endpoint \in DocumentEndpoints, file \in supportedFormats \cup {NoFile},
          text \in TextFields :
          Upload(endpoint, file, IF file = NoFile THEN 0 ELSE 1, text)
    \/ Validate
    \/ \E condition \in DocumentConditions : ExtractContent(condition)
    \/ \E removed \in BOOLEAN : CleanupTempFile(removed)
    \/ Respond

SpecExtraction == InitUpload /\ [][NextExtraction]_vars

\* The service read the file of the request, and reading or parsing it
\* failed; a .doc in the geometric path is never read.
ReadOrParseFailed ==
    /\ handler.extractionRan
    /\ handler.condition # "good"
    /\ (req.endpoint = EXTRACT \/ req.file # "doc")

\* The failure of the paragraph extractor on a .docx, for which the
\* geometric path falls back to the tags of the raw XML.
ParagraphFallback ==
    /\ req.endpoint \in {DETECT, FIND}
    /\ req.file = "docx"
    /\ handler.condition = "badDocument"

\* C21: when reading or parsing the uploaded PDF or Word file fails, in
\* the geometric path or in the markup path, the request ends in an error
\* response and never in success = true; the one exception is the failure
\* of the paragraph extractor on a .docx.
C21_ReadFailureIsError ==
    (pc = "done" /\ res # <<>> /\ ReadOrParseFailed /\ ~ParagraphFallback) =>
        ~res[Len(res)].success

(***************************************************************************)
(* /extract-images with the body of its response.  An image of the list    *)
(* the extractor returns is written as its format; the JavaScript array    *)
(* that becomes responseData.data is the record with the one field array.  *)
(***************************************************************************)
MaxExtracted == 2

ImageFormats == {"png", "jpeg"}

\* The lists extractImagesFromFile can return: up to n images.
ImagesLists(n) == UNION { [1..k -> ImageFormats] : k \in 0..n }

\* Values of uuidv4().
Uuids == {"uuid-1", "uuid-2"}

\* responseData as the handler builds it from the extractor's list.
extractionResponse(fileName, imagesList) ==
    [status |-> 200, success |-> TRUE,
     data |-> [fileName |-> fileName,
               totalImages |-> Len(imagesList),
               images |-> imagesList]]

\* The array literal assigned to responseData.data before the response is
\* sent: one list of two recognized certificates, each written as the key
\* and the text of its data.
SAMPLE_OCR_DATA ==
    [array |->
        << << [key |-> "expired_date", text |-> "2024-02-03"],
              [key |-> "name", text |-> "U+5F20U+4E09"] >> >>]

\* const imagesList = await this.imageExtractionService
\* .extractImagesFromFile(uploadedFilePath, originalFileName), and
\* responseData built from it.
ExtractImagesFromFile(imagesList, fileName, throws) ==
    /\ pc = "service"
    /\ req.endpoint \in ImageEndpoints
    /\ handler' = [pending |-> IF throws THEN ServerError
                               ELSE extractionResponse(fileName, imagesList),
                   caught |-> throws,
                   outcome |-> IF throws THEN "throws" ELSE "ok",
                   extractionRan |-> TRUE,
                   fileName |-> fileName,
                   imagesList |-> imagesList]
    /\ pc' = "cleanup"
    /\ UNCHANGED <<req, res, upload, serviceVars, batch>>

\* await Promise.all(promises) and the assignment to responseData.data
\* that follows it.
RecognizeAndAssign(throws) ==
    /\ pc = "recognize"
    /\ IF throws
       THEN /\ handler' = [handler EXCEPT !.pending = ServerError, !.caught = TRUE,
                                          !.outcome = "throws"]
            /\ pc' = "cleanup"
       ELSE /\ handler' = [handler EXCEPT !.pending =
                              [status |-> handler.pending.status,
                               success |-> handler.pending.success,
                               data |-> SAMPLE_OCR_DATA]]
            /\ pc' = "respond"
    /\ UNCHANGED <<req, res, upload, serviceVars, batch>>

NextImages ==
    \/ \E endpoint \in ImageEndpoints, file \in supportedFormats \cup {NoFile},
          size \in FileSizes :
          /\ file = NoFile => size = 0
          /\ Upload(endpoint, file, size, Null)
    \/ Validate
    \/ \E imagesList \in ImagesLists(MaxExtracted), fileName \in Uuids, throws \in BOOLEAN :
          ExtractImagesFromFile(imagesList, fileName, throws)
    \/ \E removed \in BOOLEAN : CleanupTempFile(removed)
    \/ \E throws \in BOOLEAN : RecognizeAndAssign(throws)
    \/ Respond

SpecImages == InitUpload /\ [][NextImages]_vars

\* C22: the successful response of /extract-images describes the uploaded
\* document: data.images is the list the extractor produced for the file,
\* data.totalImages is the length of that list, and data.fileName is
\* present.
C22_ResponseDescribesDocument ==
    (pc = "done" /\ res # <<>> /\ res[Len(res)].success) =>
        res[Len(res)].data =
            [fileName |-> handler.fileName,
             totalImages |-> Len(handler.imagesList),
             images |-> handler.imagesList]

(***************************************************************************)
(* The markup path of a PDF: the extracted text is escaped line by line    *)
(* and wrapped in elements, and the normalizer reads the text back.        *)
(***************************************************************************)
MaxPdfPieces == 2
MaxPdfLength == 8

\* escapeHtml: each of & < > " ' is replaced, in one pass over the text.
escapeHtml(text) ==
    LET map(c) ==
            CASE c = "&" -> <<"&", "a", "m", "p", ";">>
              [] c = "<" -> <<"&", "l", "t", ";">>
              [] c = ">" -> <<"&", "g", "t", ";">>
              [] c = "\"" -> <<"&", "q", "u", "o", "t", ";">>
              [] c = "'" -> <<"&", "#", "0", "3", "9", ";">>
              [] OTHER -> <<c>>
        escaped[n \in 0..Len(text)] ==
            IF n = 0 THEN <<>> ELSE escaped[n - 1] \o map(text[n])
    IN  escaped[Len(text)]

PDF_EMPTY_NOTICE ==
    <<"<", "p", ">", "P", "D", "F", " ", "U+6587", "U+6863", "U+4E3A", "U+7A7A",
      "U+6216", "U+65E0", "U+6CD5", "U+63D0", "U+53D6", "U+6587", "U+672C",
      "U+5185", "U+5BB9", "<", "/", "p", ">">>

PDF_NO_LINES_NOTICE ==
    <<"<", "p", ">", "P", "D", "F", " ", "U+6587", "U+6863", "U+5185", "U+5BB9",
      "U+4E3A", "U+7A7A", "U+6216", "U+683C", "U+5F0F", "U+5F02", "U+5E38",
      "<", "/", "p", ">">>

\* The length of the match of /^[\d\-U+2022]+\.?\s/ at the start of the
\* line, 0 when there is none.
listPrefixLength(line) ==
    LET inClass(c) == IsDigit(c) \/ c = "-" \/ c = "U+2022"
        run == IF \E n \in 1..Len(line) : ~inClass(line[n])
               THEN (CHOOSE n \in 1..Len(line) :
                         ~inClass(line[n]) /\ \A m \in 1..(n - 1) : inClass(line[m])) - 1
               ELSE Len(line)
        dot == IF run < Len(line) /\ line[run + 1] = "." THEN 1 ELSE 0
    IN  IF run >= 1 /\ run + dot < Len(line) /\ IsSpace(line[run + dot + 1])
        THEN run + dot + 1
        ELSE 0

\* The element convertPdfTextToHtml makes of the line of index `index`.
pdfLineToHtml(line, index, idPrefix) ==
    LET trimmedLine == trim(line)
        id == idPrefix \o <<"-">> \o toDecimal(index)
        last == trimmedLine[Len(trimmedLine)]
    IN  IF Len(trimmedLine) < 100 /\ last \in {".", ":"}
        THEN <<"<", "h", "3", " ", "i", "d", "=", "\"">> \o id \o <<"\"", ">">>
                 \o escapeHtml(trimmedLine) \o <<"<", "/", "h", "3", ">">>
        ELSE IF listPrefixLength(trimmedLine) > 0
        THEN <<"<", "l", "i", ">">>
                 \o escapeHtml(SubSeq(trimmedLine, listPrefixLength(trimmedLine) + 1,
                                      Len(trimmedLine)))
                 \o <<"<", "/", "l", "i", ">">>
        ELSE <<"<", "p", " ", "i", "d", "=", "\"">> \o id \o <<"\"", ">">>
                 \o escapeHtml(trimmedLine) \o <<"<", "/", "p", ">">>

\* options: [idPrefix].
convertPdfTextToHtml(text, options) ==
    IF text = Null \/ text = <<>> \/ trim(text) = <<>> THEN PDF_EMPTY_NOTICE
    ELSE LET lines == SelectSeq(split(text, LINE_FEED), LAMBDA line : Len(trim(line)) > 0)
         IN  IF Len(lines) = 0 THEN PDF_NO_LINES_NOTICE
             ELSE join([k \in 1..Len(lines) |-> pdfLineToHtml(lines[k], k - 1, options.idPrefix)], LINE_FEED)

\* Fragments of the text of a PDF: a word, the characters escapeHtml
\* replaces, the tail of an entity, whitespace, and the characters [image].
PdfPieces ==
    { <<"b">>, <<"&">>, <<"l", "t", ";">>, <<"<">>, <<" ">>, IMAGE }

MarkupTargets == { <<"b">> }

\* The field idPrefix of the request, which the handler passes on.
IdPrefixes == { <<"d">> }

InitPdfMarkup ==
    /\ pc = "pdf"
    /\ htmlContent = <<>>
    /\ pieceCount = 0
    /\ cleanedHtmlText = Unset
    /\ renormalized = Unset
    /\ givenStr = Unset
    /\ followed = FALSE
    /\ targets = Unset
    /\ data = Unset
    /\ textContent = <<>>
    /\ imagePositions = <<>>
    /\ analysis = NullObject
    /\ below = NullObject
    /\ search = NullObject
    /\ comparison = NullObject
    /\ req = NullObject
    /\ res = <<>>
    /\ upload = NullObject
    /\ handler = NullObject
    /\ batch = NullObject
    /\ pdfText = <<>>
    /\ requests = <<>>
    /\ disk = <<>>

\* pdf-parse yields one more fragment of text.
AppendPdfText(p) ==
    /\ pc = "pdf"
    /\ pieceCount < MaxPdfPieces
    /\ Len(pdfText \o p) <= MaxPdfLength
    /\ pdfText' = pdfText \o p
    /\ pieceCount' = pieceCount + 1
    /\ UNCHANGED <<pc, htmlContent, cleanedHtmlText, renormalized, givenStr, followed,
                   targets, data>>
    /\ UNCHANGED <<geoVars, search, comparison, req, res, upload, handler, batch,
                   concurrentVars>>

\* escapeHtml applied to the text as one line.
EscapeHtml ==
    /\ pc = "pdf"
    /\ htmlContent' = escapeHtml(pdfText)
    /\ pc' = "convert"
    /\ UNCHANGED <<pieceCount, cleanedHtmlText, renormalized, givenStr, followed,
                   targets, data, pdfText>>
    /\ UNCHANGED <<geoVars, search, comparison, req, res, upload, handler, batch,
                   concurrentVars>>

\* htmlContent = this.convertPdfTextToHtml(pdfData.text, options), which
\* extractDocumentContent calls for a text that is not blank.
ConvertPdfTextToHtml(idPrefix) ==
    /\ pc = "pdf"
    /\ trim(pdfText) # <<>>
    /\ htmlContent' = convertPdfTextToHtml(pdfText, [idPrefix |-> idPrefix])
    /\ pc' = "convert"
    /\ UNCHANGED <<pieceCount, cleanedHtmlText, renormalized, givenStr, followed,
                   targets, data, pdfText>>
    /\ UNCHANGED <<geoVars, search, comparison, req, res, upload, handler, batch,
                   concurrentVars>>

NextPdfMarkup ==
    \/ \E p \in PdfPieces : AppendPdfText(p)
    \/ EscapeHtml
    \/ \E idPrefix \in IdPrefixes : ConvertPdfTextToHtml(idPrefix)
    \/ ExtractTextFromHtml
    \/ \E t \in MarkupTargets : IsFollowedByImage(t)

SpecPdfMarkup == InitPdfMarkup /\ [][NextPdfMarkup]_vars

\* C27: for every plain text line t, extractTextFromHtml(escapeHtml(t)) is
\* t with its whitespace collapsed and trimmed: entity-like sequences and
\* angle brackets in t come back unchanged.
C27_EscapeRoundTrip ==
    (pc = "normalized" /\ htmlContent = escapeHtml(pdfText)) =>
        cleanedHtmlText = trim(collapseWhitespace(pdfText))

\* Some part of the markup is an image-bearing element.
HasImageElement(html) ==
    \E i \in 1..Len(html) : \E j \in i..Len(html) : IsImageElement(SubSeq(html, i, j))

\* C28: a target counts as followed by an image only if the converted
\* markup holds an image-bearing element after an occurrence of the
\* target: text that merely holds the characters [image] never makes a
\* target count as followed.
C28_FollowedNeedsImageElement ==
    (pc = "matched" /\ followed) => HasImageElement(htmlContent)

(***************************************************************************)
(* Several upload requests handled at the same time.  The handlers are     *)
(* async functions: the steps of different requests interleave at every    *)
(* await.  A request is modelled from the moment the upload middleware     *)
(* stores its file to its response; the services hold no state, so the     *)
(* requests meet only in the upload directories.                           *)
(***************************************************************************)
MaxRequests == 2

\* Values of Date.now() at the arrival of a request, in milliseconds.
Times == {0, 1}

\* Values of Math.round(Math.random() * 1e9).
RandomValues == {0, 1}

ConcurrentEndpoints == {DETECT, "/ai/upload-analyze"}

\* The directory the middleware of the endpoint stores its files in.
uploadDir(endpoint) ==
    IF endpoint \in AiEndpoints THEN "uploads/ai-files" ELSE "uploads"

\* The name createStorage gives a file: the time and uuidv4(), which
\* returns a value no other call returns (the index of the request stands
\* for it).
uniqueName(now, r) == [time |-> now, unique |-> <<"uuid", r>>]

\* The name the AI controller gives a file: the time and a random integer.
aiUniqueName(now, random) == [time |-> now, unique |-> <<"random", random>>]

\* The file stored under the path, if any.
FilesAt(files, path) == { f \in files : f.path = path }

InitConcurrent ==
    /\ pc = "serving"
    /\ htmlContent = <<>>
    /\ pieceCount = 0
    /\ cleanedHtmlText = Unset
    /\ renormalized = Unset
    /\ givenStr = Unset
    /\ followed = FALSE
    /\ targets = Unset
    /\ data = Unset
    /\ textContent = <<>>
    /\ imagePositions = <<>>
    /\ analysis = NullObject
    /\ below = NullObject
    /\ search = NullObject
    /\ comparison = NullObject
    /\ req = NullObject
    /\ res = <<>>
    /\ upload = NullObject
    /\ handler = NullObject
    /\ batch = NullObject
    /\ pdfText = Unset
    /\ requests = <<>>
    /\ disk = {}

\* A request arrives and the upload middleware stores its file: a file
\* already stored under the same path is overwritten.  The clock does not
\* run backwards.
StoreUpload(endpoint, now, random) ==
    /\ pc = "serving"
    /\ Len(requests) < MaxRequests
    /\ \A q \in 1..Len(requests) : requests[q].path.name.time <= now
    /\ LET r == Len(requests) + 1
           path == [dir |-> uploadDir(endpoint),
                    name |-> IF endpoint \in AiEndpoints THEN aiUniqueName(now, random)
                             ELSE uniqueName(now, r)]
       IN  /\ disk' = (disk \ FilesAt(disk, path)) \cup {[path |-> path, content |-> r]}
           /\ requests' = Append(requests,
                  [endpoint |-> endpoint, path |-> path, at |-> "service",
                   pending |-> NullObject, response |-> NullObject,
                   overwrote |-> FilesAt(disk, path) # {},
                   readOther |-> FALSE, removedOther |-> FALSE])
    /\ UNCHANGED <<pc, htmlContent, pieceCount, cleanedHtmlText, renormalized, givenStr,
                   followed, targets, data, geoVars, search, comparison,
                   req, res, upload, handler, batch, pdfText>>

\* The service reads the file under req.file.path and returns a result
\* made from what it read; it throws when there is no such file.
ReadUpload(r) ==
    /\ pc = "serving"
    /\ r <= Len(requests)
    /\ requests[r].at = "service"
    /\ LET found == FilesAt(disk, requests[r].path)
       IN  requests' =
               [requests EXCEPT ![r] =
                   [@ EXCEPT !.at = "cleanup",
                             !.pending =
                                 IF found = {} THEN ServerError
                                 ELSE [status |-> 200, success |-> TRUE,
                                       content |-> (CHOOSE f \in found : TRUE).content],
                             !.readOther = \E f \in found : f.content # r]]
    /\ UNCHANGED <<pc, htmlContent, pieceCount, cleanedHtmlText, renormalized, givenStr,
                   followed, targets, data, geoVars, search, comparison,
                   req, res, upload, handler, batch, pdfText, disk>>

\* cleanupTempFile(req.file.path) / fs.remove(req.file.path).
RemoveUpload(r) ==
    /\ pc = "serving"
    /\ r <= Len(requests)
    /\ requests[r].at = "cleanup"
    /\ disk' = disk \ FilesAt(disk, requests[r].path)
    /\ requests' =
           [requests EXCEPT ![r] =
               [@ EXCEPT !.at = "respond",
                         !.removedOther =
                             \E f \in FilesAt(disk, requests[r].path) : f.content # r]]
    /\ UNCHANGED <<pc, htmlContent, pieceCount, cleanedHtmlText, renormalized, givenStr,
                   followed, targets, data, geoVars, search, comparison,
                   req, res, upload, handler, batch, pdfText>>

RespondUpload(r) ==
    /\ pc = "serving"
    /\ r <= Len(requests)
    /\ requests[r].at = "respond"
    /\ requests' = [requests EXCEPT ![r] =
                       [@ EXCEPT !.at = "done", !.response = requests[r].pending]]
    /\ UNCHANGED <<pc, htmlContent, pieceCount, cleanedHtmlText, renormalized, givenStr,
                   followed, targets, data, geoVars, search, comparison,
                   req, res, upload, handler, batch, pdfText, disk>>

NextConcurrent ==
    \/ \E endpoint \in ConcurrentEndpoints, now \in Times, random \in RandomValues :
          StoreUpload(endpoint, now, random)
    \/ \E r \in 1..MaxRequests : ReadUpload(r)
    \/ \E r \in 1..MaxRequests : RemoveUpload(r)
    \/ \E r \in 1..MaxRequests : RespondUpload(r)

SpecConcurrent == InitConcurrent /\ [][NextConcurrent]_vars

\* The response the request gets when it is handled alone: the result made
\* from its own file.
AloneResponse(r) == [status |-> 200, success |-> TRUE, content |-> r]

\* C23: requests are independent: under every interleaving the response of
\* a request is the one it gets when handled alone, and no request reads,
\* overwrites or deletes the uploaded temp file of another request.
C23_RequestsIndependent ==
    pc = "serving" =>
        \A r \in 1..Len(requests) :
            /\ ~requests[r].overwrote
            /\ ~requests[r].readOther
            /\ ~requests[r].removedOther
            /\ requests[r].at = "done" => requests[r].response = AloneResponse(r)

====
